---- MODULE Spec2Model ----
(***************************************************************************)
(* A model of the monitoring engine of lookout-server: the endpoint        *)
(* registry (EndpointScheduler.endpoint_cache), the scheduling loop, the   *)
(* probe queue, the worker pool, the health monitor (circuit breaker) and  *)
(* the persistence rows they read and write.                               *)
(*                                                                         *)
(* Time.  One unit of model time is 10 seconds.  Every instant the code    *)
(* stores (next_check_time, scheduled_time, last_health_check) is kept as  *)
(* its offset from the current time, instant - time.time(): 0 is "now",    *)
(* a negative value lies in the past.  The action Tick lets one unit of    *)
(* time pass and shifts every stored instant by -1, down to a floor below  *)
(* which the code no longer distinguishes values.                          *)
(***************************************************************************)
EXTENDS Integers, Sequences, FiniteSets, TLC

\* ------------------------------------------------------------ constants

\* The endpoint ids of the model (uuids in the program).
Ids == {1}

\* settings.worker_count (WORKER_COUNT=2; the validator allows 1..50).
worker_count == 2
Workers == 1..worker_count

\* settings.scheduler_interval: SCHEDULER_INTERVAL=10 seconds, one unit.
scheduler_interval == 1

\* settings.retry_delay: 10 seconds, one unit.
retry_delay == 1

\* on_endpoint_created: next_check = time.time() + 10.
new_endpoint_delay == 1

\* frequency_minutes * 60 seconds, in units of 10 seconds.
units_per_minute == 6

\* The values of frequency_minutes the model uses.  The API accepts 5..60;
\* the scan only compares instants, so the model takes short periods.
Freqs == {1, 2}

\* settings.health_check_interval: HEALTH_CHECK_INTERVAL=20 seconds.
check_interval == 2

\* settings.failure_threshold and settings.success_threshold.
failure_threshold == 3
success_threshold == 3

\* settings.queue_overwhelmed_size (QUEUE_OVERWHELMED_SIZE=2).
queue_overwhelmed_size == 2

\* The notification coordinator is modelled in minutes: its loop sleeps
\* check_interval = 60 seconds, one minute.
notification_check_interval == 1

\* _process_expired_buffers: timedelta(minutes=15).
buffer_minutes == 15

\* timedelta(hours=cooldown_hours), in minutes.
minutes_per_hour == 60

\* The users of the model (uuids in the program).
Users == {1}

\* ------------------------------------------------------------ bounds

\* Instants further in the past than MaxLate units are kept as -MaxLate.
MaxLate == 2

\* The model keeps the MaxResults most recent rows of check_results.
MaxResults == 2

\* consecutive_failures of an endpoint saturates at MaxFailures.
MaxFailures == 2

\* The ordinal of a probe of one endpoint saturates at MaxProbes.
MaxProbes == 2

\* The health monitor's two counters saturate at MaxHealthCount.
MaxHealthCount == 4

\* The minutes since the last outage email saturate at MaxGap.
MaxGap == 80

\* The model records the first MaxCycles cooldowns of a run of outage cycles.
MaxCycles == 2

\* The time since an endpoint's last enqueue saturates at MaxSince units,
\* the longest period of Freqs.
MaxSince == 12

\* The cumulative lateness of an endpoint's enqueues saturates at MaxDrift.
MaxDrift == 2

\* Reads of the notification state that fail, per behaviour.
MaxReadErrors == 1

\* The endpoint ids and the values of next_check_time (relative to the
\* scan) of the registries a scan is applied to on its own.
SnapIds == {1, 2}
SnapTimes == {-1, 0, 1}

\* ------------------------------------------------------------ state

VARIABLES
    app,             \* lifespan position: "startup", "serving", "failed", "stopped"
    is_initialized,  \* EndpointScheduler.is_initialized
    is_running,      \* EndpointScheduler.is_running
    endpoint_cache,  \* EndpointScheduler.endpoint_cache: id -> cache entry
    check_queue,     \* EndpointScheduler.check_queue: FIFO of queue entries
    sched_sleep,     \* units left of the scheduling loop's asyncio.sleep
    worker,          \* position of each _worker task
    health,          \* SystemHealthMonitor's state
    db_endpoints,    \* table endpoints: id -> row
    check_results,   \* table check_results: the most recent rows, oldest first
    used_ids,        \* ids the store has ever handed out
    enqueued,        \* per endpoint: how many probes of it were enqueued
    trigger_calls,   \* calls of NotificationTrigger.handle_endpoint_check
    enqueue_log,     \* per observed endpoint: when the scans enqueued it
    tasks,           \* the live _worker and _scheduler_loop tasks, the last start()
    global_email_state,  \* table global_email_state: user -> row
    notification_loop,   \* position of OutageNotificationService._notification_loop
    sent_emails,         \* the outage emails sent, the cooldowns started, the last send
    read_errors          \* failed selects of _get_or_create_email_state so far

engine_vars == <<app, is_initialized, is_running, endpoint_cache, check_queue,
                 sched_sleep, worker, health, db_endpoints, check_results,
                 used_ids, enqueued, trigger_calls, enqueue_log, tasks>>

notification_vars == <<global_email_state, notification_loop, sent_emails,
                       read_errors>>

vars == <<engine_vars, notification_vars>>

\* ------------------------------------------------------------ helpers

Min(a, b) == IF a < b THEN a ELSE b
Max(a, b) == IF a > b THEN a ELSE b

\* dict[key] = value
Put(f, k, v) == [x \in DOMAIN f \cup {k} |-> IF x = k THEN v ELSE f[x]]

\* del dict[key]
Del(f, k) == [x \in DOMAIN f \ {k} |-> f[x]]

\* One unit of time passes for a stored instant t kept down to -floor.
Shift(t, floor) == IF t > -floor THEN t - 1 ELSE -floor

\* The last n elements of a sequence.
Last(s, n) == IF Len(s) <= n THEN s ELSE SubSeq(s, Len(s) - n + 1, Len(s))

IdleWorker == [pc |-> "idle", endpoint_id |-> 0, probe |-> 0, sleep |-> 0]

\* ------------------------------------------------------------ registry

\* The cache entry built from an endpoint record: {**endpoint_data,
\* 'next_check_time': next_check}.  The record carries no
\* consecutive_failures key unless the row does; .get(..., 0) reads 0.
CacheEntry(data, next_check) ==
    [is_active |-> data.is_active,
     frequency_minutes |-> data.frequency_minutes,
     consecutive_failures |-> data.consecutive_failures,
     next_check_time |-> next_check]

\* A creation that schedules the first check one period ahead.
on_endpoint_created_at_frequency(cache, id, endpoint_data) ==
    Put(cache, id, CacheEntry(endpoint_data,
                              endpoint_data.frequency_minutes * units_per_minute))

\* EndpointScheduler.on_endpoint_created
on_endpoint_created(cache, id, endpoint_data) ==
    Put(cache, id, CacheEntry(endpoint_data, new_endpoint_delay))

\* EndpointScheduler.on_endpoint_updated: cache_entry.update(updated_data),
\* and next_check_time = time.time() + frequency whenever the key
\* 'frequency_minutes' is in updated_data.
on_endpoint_updated(cache, id, updated_data) ==
    IF id \notin DOMAIN cache THEN cache
    ELSE LET old    == cache[id]
             merged == [k \in DOMAIN old |->
                          IF k \in DOMAIN updated_data THEN updated_data[k]
                          ELSE old[k]]
         IN  Put(cache, id,
                 IF "frequency_minutes" \in DOMAIN updated_data
                 THEN [merged EXCEPT !.next_check_time =
                          updated_data.frequency_minutes * units_per_minute]
                 ELSE merged)

\* EndpointScheduler.on_endpoint_deleted
on_endpoint_deleted(cache, id) ==
    IF id \in DOMAIN cache THEN Del(cache, id) ELSE cache

\* EndpointScheduler._load_endpoints_from_database: the rows with
\* is_active, each with next_check_time = now + frequency.
LoadedCache(db) ==
    [id \in {x \in DOMAIN db : db[x].is_active} |->
        CacheEntry(db[id], db[id].frequency_minutes * units_per_minute)]

\* A scan that takes an entry only at the very instant of its next_check_time
\* (current_time == next_check_time), so that a late scan passes it by.
DueIdsAtInstant(cache) ==
    {id \in DOMAIN cache : cache[id].is_active /\ cache[id].next_check_time = 0}

\* The ids _find_due_endpoints returns: active and current_time >= next_check_time.
DueIds(cache) ==
    {id \in DOMAIN cache : cache[id].is_active /\ cache[id].next_check_time <= 0}

\* A scan that advances next_check_time of the entries it returns by
\* scheduler_interval only.
AdvanceDueByInterval(cache) ==
    [id \in DOMAIN cache |->
        IF id \in DueIds(cache)
        THEN [cache[id] EXCEPT !.next_check_time = scheduler_interval]
        ELSE cache[id]]

\* The cache after _find_due_endpoints: next_check_time = current_time + frequency
\* for every entry returned.
AdvanceDue(cache) ==
    [id \in DOMAIN cache |->
        IF id \in DueIds(cache)
        THEN [cache[id] EXCEPT !.next_check_time =
                 cache[id].frequency_minutes * units_per_minute]
        ELSE cache[id]]

\* The entries of the registries a scan is applied to on its own.
SnapEntries ==
    [is_active : BOOLEAN, frequency_minutes : Freqs,
     consecutive_failures : {0}, next_check_time : SnapTimes]

\* The ids of a set in ascending order.
RECURSIVE SortedSeq(_)
SortedSeq(S) ==
    IF S = {} THEN <<>>
    ELSE LET m == CHOOSE x \in S : \A y \in S : x <= y
         IN  <<m>> \o SortedSeq(S \ {m})

\* The queue entries of one scan.  The code puts (endpoint_id,
\* scheduled_time); no reader uses scheduled_time, so the entry keeps the id
\* only, and probe, the ordinal of this enqueue among the endpoint's.
DueEntries(cache, count) ==
    LET ids == SortedSeq(DueIds(cache))
    IN  [i \in 1..Len(ids) |->
            [endpoint_id |-> ids[i],
             probe |-> Min(count[ids[i]] + 1, MaxProbes)]]

\* A scan that pairs an entry with the next_check_time it has just written.
find_due_endpoints_new_time(cache) ==
    LET ids == SortedSeq(DueIds(cache))
    IN  [i \in 1..Len(ids) |->
            [endpoint_id |-> ids[i],
             scheduled_time |-> AdvanceDue(cache)[ids[i]].next_check_time]]

\* What _find_due_endpoints returns: (endpoint_id, next_check_time) of every
\* entry that is active and due, next_check_time read before it is advanced.
find_due_endpoints(cache) ==
    LET ids == SortedSeq(DueIds(cache))
    IN  [i \in 1..Len(ids) |->
            [endpoint_id |-> ids[i],
             scheduled_time |-> cache[ids[i]].next_check_time]]

\* What the model observes of the enqueues of an endpoint, for the endpoints
\* a specification observes (the domain of the log): since, the time since
\* the last one; drift, by how much the last one came after (first due
\* instant + (k-1) * frequency), which is the sum of the latenesses of the k
\* enqueues.  The lateness of an enqueue is current_time - next_check_time
\* at the scan; drift counts no more than scheduler_interval of it, what a
\* loop that scans every scheduler_interval can add, so it never exceeds
\* the real drift.
NoEnqueue == [since |-> MaxSince, drift |-> 0]

\* The observations after a scan of _find_due_endpoints.
LogScan(log, cache) ==
    [id \in DOMAIN log |->
        IF id \in DueIds(cache)
        THEN LET lateness == Min(0 - cache[id].next_check_time,
                                  scheduler_interval)
             IN  [since |-> 0,
                  drift |-> Min(log[id].drift + lateness, MaxDrift)]
        ELSE log[id]]

\* The observations are kept for the entries of the registry only.
LogKeep(log, cache) ==
    [id \in DOMAIN log |-> IF id \in DOMAIN cache THEN log[id] ELSE NoEnqueue]

\* The observations after ten seconds pass.
LogTick(log, cache) ==
    [id \in DOMAIN log |->
        IF id \in DOMAIN cache
        THEN [log[id] EXCEPT !.since = Min(@ + 1, MaxSince)]
        ELSE log[id]]

\* The observations after an update event: the schedule of the endpoint
\* starts again from the new next_check_time.
LogUpdate(log, id) ==
    [x \in DOMAIN log |-> IF x = id THEN [log[x] EXCEPT !.drift = 0] ELSE log[x]]

\* ------------------------------------------------------------ health monitor

\* A recovery that needs one success more than success_threshold.
handle_success_late(h) ==
    LET h1 == [h EXCEPT !.consecutive_failures = 0,
                        !.consecutive_successes = Min(@ + 1, MaxHealthCount)]
    IN  IF ~h1.is_system_healthy /\ h1.consecutive_successes > success_threshold
        THEN [h1 EXCEPT !.is_system_healthy = TRUE, !.consecutive_successes = 0]
        ELSE h1

\* A recovery that needs one success less than success_threshold.
handle_success_early(h) ==
    LET h1 == [h EXCEPT !.consecutive_failures = 0,
                        !.consecutive_successes = Min(@ + 1, MaxHealthCount)]
    IN  IF ~h1.is_system_healthy /\ h1.consecutive_successes >= success_threshold - 1
        THEN [h1 EXCEPT !.is_system_healthy = TRUE, !.consecutive_successes = 0]
        ELSE h1

\* A breaker that trips one failure after failure_threshold.
handle_failure_late(h) ==
    LET h1 == [h EXCEPT !.consecutive_successes = 0,
                        !.consecutive_failures = Min(@ + 1, MaxHealthCount)]
    IN  IF h1.is_system_healthy /\ h1.consecutive_failures > failure_threshold
        THEN [h1 EXCEPT !.is_system_healthy = FALSE]
        ELSE h1

\* SystemHealthMonitor._handle_success
handle_success(h) ==
    LET h1 == [h EXCEPT !.consecutive_failures = 0,
                        !.consecutive_successes = Min(@ + 1, MaxHealthCount)]
    IN  IF ~h1.is_system_healthy /\ h1.consecutive_successes >= success_threshold
        THEN [h1 EXCEPT !.is_system_healthy = TRUE, !.consecutive_successes = 0]
        ELSE h1

\* SystemHealthMonitor._handle_failure
handle_failure(h) ==
    LET h1 == [h EXCEPT !.consecutive_successes = 0,
                        !.consecutive_failures = Min(@ + 1, MaxHealthCount)]
    IN  IF h1.is_system_healthy /\ h1.consecutive_failures >= failure_threshold
        THEN [h1 EXCEPT !.is_system_healthy = FALSE]
        ELSE h1

\* A health check that runs the subchecks on every call, whatever the time
\* since the last one.
check_system_health_every_call(h, db_ok, net_ok) ==
    LET h1 == [h EXCEPT !.last_health_check = 0]
    IN  IF db_ok /\ net_ok THEN handle_success(h1) ELSE handle_failure(h1)

\* SystemHealthMonitor.check_system_health: the state after the call, given
\* the results of the database and the internet subcheck.
check_system_health(h, db_ok, net_ok) ==
    IF 0 - h.last_health_check < check_interval THEN h
    ELSE LET h1 == [h EXCEPT !.last_health_check = 0]
         IN  IF db_ok /\ net_ok THEN handle_success(h1) ELSE handle_failure(h1)

\* SystemHealthMonitor.force_health_check: last_health_check = 0 (the epoch).
force_health_check(h, db_ok, net_ok) ==
    check_system_health([h EXCEPT !.last_health_check = 0 - check_interval],
                        db_ok, net_ok)

\* An overwhelm check that passes a queue of exactly queue_overwhelmed_size.
is_queue_overwhelmed_above(queue_size) == queue_size > queue_overwhelmed_size

\* SystemHealthMonitor.is_queue_overwhelmed
is_queue_overwhelmed(queue_size) == queue_size >= queue_overwhelmed_size

\* ------------------------------------------------------------ persistence

\* A row of table endpoints as the REST layer inserts it.
NewRow(freq, active) ==
    [is_active |-> active, frequency_minutes |-> freq, consecutive_failures |-> 0]

\* EndpointResponse(**row).dict(): the record the REST layer hands to the
\* scheduler; the schema has no consecutive_failures field.
ResponseDict(row) ==
    [is_active |-> row.is_active, frequency_minutes |-> row.frequency_minutes]

\* The fields an EndpointUpdate may set: frequency 0 and active "keep" stand
\* for None (field not sent).
Patches == [frequency_minutes : Freqs \cup {0}, is_active : {"on", "off", "keep"}]

\* update(update_data) on the row, update_data the fields that are not None.
ApplyPatch(row, patch) ==
    [row EXCEPT
        !.frequency_minutes =
            IF patch.frequency_minutes = 0 THEN @ ELSE patch.frequency_minutes,
        !.is_active =
            IF patch.is_active = "keep" THEN @ ELSE patch.is_active = "on"]

\* ------------------------------------------------------------ notification coordinator

\* A nullable timestamp column: <<>> is NULL, <<t>> the instant t as its
\* offset in minutes from the current time.
Null == <<>>
At(t) == <<t>>

\* The row _reset_user_to_ready_state writes; _get_or_create_email_state
\* inserts the same values (the other columns default to NULL).
ReadyRow ==
    [buffer_active |-> FALSE, buffer_started_at |-> Null,
     failing_endpoint_ids |-> <<>>, cooldown_level |-> 0,
     cooldown_expires_at |-> Null]

\* The notification loop before start() is called.
StoppedLoop == [is_running |-> FALSE, pc |-> "stopped", sleep |-> 0,
                user_id |-> 0, buffer_state |-> ReadyRow]

\* OutageNotificationService._get_next_cooldown: level -> (next level, hours).
cooldown_map ==
    [level \in 0..4 |->
        CASE level = 0 -> [level |-> 1, hours |-> 1]
          [] level = 1 -> [level |-> 2, hours |-> 2]
          [] level = 2 -> [level |-> 3, hours |-> 3]
          [] level = 3 -> [level |-> 4, hours |-> 5]
          [] level = 4 -> [level |-> 1, hours |-> 1]]

get_next_cooldown(current_level) ==
    IF current_level \in DOMAIN cooldown_map THEN cooldown_map[current_level]
    ELSE [level |-> 1, hours |-> 1]

\* OutageNotificationService._get_or_create_email_state, as the table after it.
get_or_create_email_state(table, user_id) ==
    IF user_id \in DOMAIN table THEN table ELSE Put(table, user_id, ReadyRow)

\* OutageNotificationService._is_in_cooldown: current_time < expires_at.
is_in_cooldown(email_state) ==
    /\ email_state.cooldown_expires_at # Null
    /\ 0 < email_state.cooldown_expires_at[1]

\* OutageNotificationService._start_buffer_window
start_buffer_window(row, endpoint_id) ==
    [row EXCEPT !.buffer_active = TRUE, !.buffer_started_at = At(0),
                !.failing_endpoint_ids = <<endpoint_id>>]

\* OutageNotificationService._add_to_buffer
add_to_buffer(row, endpoint_id) ==
    IF \E i \in DOMAIN row.failing_endpoint_ids :
          row.failing_endpoint_ids[i] = endpoint_id
    THEN row
    ELSE [row EXCEPT !.failing_endpoint_ids = Append(@, endpoint_id)]

\* A reset that writes nothing.
reset_user_keeping_row(table, user_id) == table

\* OutageNotificationService._reset_user_to_ready_state: an update of the
\* user's row, if there is one.
reset_user_to_ready_state(table, user_id) ==
    IF user_id \in DOMAIN table THEN Put(table, user_id, ReadyRow) ELSE table

\* The rows _process_expired_buffers selects: buffer_active and
\* buffer_started_at < current_time - 15 minutes.
ExpiredBuffers(table) ==
    {u \in DOMAIN table :
        /\ table[u].buffer_active
        /\ table[u].buffer_started_at # Null
        /\ table[u].buffer_started_at[1] < 0 - buffer_minutes}

\* OutageNotificationService._cleanup_expired_cooldowns: every row with
\* cooldown_expires_at < current_time is reset to the ready state.
cleanup_expired_cooldowns(table) ==
    [u \in DOMAIN table |->
        IF /\ table[u].cooldown_expires_at # Null
           /\ table[u].cooldown_expires_at[1] < 0
        THEN ReadyRow ELSE table[u]]

\* How the store answers _record_notification_and_start_cooldown: no error,
\* an error on the insert into notification_history, an error on the update
\* of global_email_state.
RecordFaults == {"none", "history", "state"}

\* A cooldown start that leaves failing_endpoint_ids as they are.
record_notification_keeping_ids(table, user_id, current_cooldown_level, fault) ==
    IF fault # "none" \/ user_id \notin DOMAIN table THEN table
    ELSE LET next == get_next_cooldown(current_cooldown_level)
         IN  Put(table, user_id,
                 [table[user_id] EXCEPT
                     !.buffer_active = FALSE, !.buffer_started_at = Null,
                     !.cooldown_level = next.level,
                     !.cooldown_expires_at = At(next.hours * minutes_per_hour)])

\* OutageNotificationService._record_notification_and_start_cooldown, as the
\* table after it; any error is caught and logged.
record_notification_and_start_cooldown(table, user_id, current_cooldown_level, fault) ==
    IF fault # "none" \/ user_id \notin DOMAIN table THEN table
    ELSE LET next == get_next_cooldown(current_cooldown_level)
         IN  Put(table, user_id,
                 [buffer_active |-> FALSE, buffer_started_at |-> Null,
                  failing_endpoint_ids |-> <<>>,
                  cooldown_level |-> next.level,
                  cooldown_expires_at |-> At(next.hours * minutes_per_hour)])

\* ------------------------------------------------------------ initial state

\* The tasks of the scheduler before start(): worker_tasks = [] and
\* scheduler_task = None.  workers and loops count the live tasks, listed and
\* loop_listed those of them that worker_tasks and scheduler_task refer to;
\* last_start is how start() ended if it was the latest lifecycle call.
NoTasks ==
    [workers |-> 0, listed |-> 0, loops |-> 0, loop_listed |-> 0,
     last_start |-> "none"]

\* EndpointScheduler.start past its two tests: worker_count tasks replace the
\* list worker_tasks and one task replaces scheduler_task.
spawn_tasks(t) ==
    [workers |-> t.workers + worker_count, listed |-> worker_count,
     loops |-> t.loops + 1, loop_listed |-> 1, last_start |-> "started"]

\* EndpointScheduler.stop: the task in scheduler_task and the tasks in
\* worker_tasks are cancelled and awaited.
cancel_tasks(t) ==
    [t EXCEPT !.workers = @ - t.listed, !.listed = 0,
              !.loops = @ - t.loop_listed, !.loop_listed = 0]

InitHealth ==
    [is_system_healthy |-> TRUE, consecutive_failures |-> 0,
     consecutive_successes |-> 0, last_health_check |-> 0 - check_interval]

\* The rows table endpoints may hold when the process starts: none, or one
\* endpoint checked every minute, active or not.
StartRows ==
    {<<>>} \cup {Put(<<>>, 1, NewRow(1, a)) : a \in BOOLEAN}

Init ==
    /\ app = "startup"
    /\ is_initialized = FALSE
    /\ is_running = FALSE
    /\ endpoint_cache = <<>>
    /\ check_queue = <<>>
    /\ sched_sleep = 0
    /\ worker = [w \in Workers |-> IdleWorker]
    /\ health = InitHealth
    /\ db_endpoints \in StartRows
    /\ check_results = <<>>
    /\ used_ids = DOMAIN db_endpoints
    /\ enqueued = [id \in Ids |-> 0]
    /\ trigger_calls = {}
    /\ enqueue_log = <<>>
    /\ global_email_state = <<>>
    /\ notification_loop = StoppedLoop
    /\ sent_emails = [since |-> MaxGap, gap |-> MaxGap, cooldowns |-> <<>>,
                      last |-> "none"]
    /\ read_errors = 0
    /\ tasks = NoTasks

\* ------------------------------------------------------------ lifecycle

\* An initialize that sets is_initialized before the bulk read.
initialize_flag_first ==
    /\ app = "startup"
    /\ ~is_initialized
    /\ is_initialized' = TRUE
    /\ \E load_ok \in BOOLEAN :
          IF load_ok
          THEN /\ endpoint_cache' = LoadedCache(db_endpoints)
               /\ app' = app
          ELSE /\ app' = "failed"
               /\ UNCHANGED endpoint_cache
    /\ UNCHANGED <<is_running, check_queue, sched_sleep, worker, health,
                   db_endpoints, check_results, used_ids, enqueued, trigger_calls,
                   enqueue_log>>
    /\ UNCHANGED tasks
    /\ UNCHANGED notification_vars

\* EndpointScheduler.initialize, called by SchedulerManager.initialize from
\* lifespan: the one bulk read; if it raises, startup fails.
initialize ==
    /\ app = "startup"
    /\ ~is_initialized
    /\ \E load_ok \in BOOLEAN :
          IF load_ok
          THEN /\ endpoint_cache' = LoadedCache(db_endpoints)
               /\ is_initialized' = TRUE
               /\ app' = app
          ELSE /\ app' = "failed"
               /\ UNCHANGED <<endpoint_cache, is_initialized>>
    /\ UNCHANGED <<is_running, check_queue, sched_sleep, worker, health,
                   db_endpoints, check_results, used_ids, enqueued, trigger_calls,
                   enqueue_log>>
    /\ UNCHANGED tasks
    /\ UNCHANGED notification_vars

\* EndpointScheduler.start: the worker tasks and the scheduling loop are created.
start ==
    /\ app = "startup"
    /\ is_initialized
    /\ ~is_running
    /\ is_running' = TRUE
    /\ worker' = [w \in Workers |-> IdleWorker]
    /\ sched_sleep' = 0
    /\ app' = "serving"
    /\ tasks' = spawn_tasks(tasks)
    /\ UNCHANGED <<is_initialized, endpoint_cache, check_queue, health,
                   db_endpoints, check_results, used_ids, enqueued, trigger_calls,
                   enqueue_log>>
    /\ UNCHANGED notification_vars

\* EndpointScheduler.stop, called by SchedulerManager.shutdown: the loop and
\* every worker task are cancelled.
stop ==
    /\ app = "serving"
    /\ is_running' = FALSE
    /\ worker' = [w \in Workers |-> [IdleWorker EXCEPT !.pc = "stopped"]]
    /\ app' = "stopped"
    /\ tasks' = cancel_tasks(tasks)
    /\ UNCHANGED <<is_initialized, endpoint_cache, check_queue, sched_sleep,
                   health, db_endpoints, check_results, used_ids, enqueued,
                   trigger_calls, enqueue_log>>
    /\ UNCHANGED notification_vars

\* EndpointScheduler.initialize called at any moment: a scheduler that is
\* initialized returns at once; otherwise the bulk read runs and, if it
\* raises, is_initialized stays False.
scheduler_initialize(load_ok) ==
    /\ ~is_initialized
    /\ IF load_ok
       THEN /\ endpoint_cache' = LoadedCache(db_endpoints)
            /\ is_initialized' = TRUE
       ELSE UNCHANGED <<endpoint_cache, is_initialized>>
    /\ tasks' = [tasks EXCEPT !.last_start = "none"]
    /\ UNCHANGED <<app, is_running, check_queue, sched_sleep, worker, health,
                   db_endpoints, check_results, used_ids, enqueued, trigger_calls,
                   enqueue_log>>
    /\ UNCHANGED notification_vars

\* A start() that does not test is_running.
scheduler_start_unguarded ==
    /\ IF ~is_initialized
       THEN /\ tasks' = [tasks EXCEPT !.last_start = "raised"]
            /\ UNCHANGED <<is_running, worker, sched_sleep>>
       ELSE /\ is_running' = TRUE
            /\ worker' = [w \in Workers |-> IdleWorker]
            /\ sched_sleep' = 0
            /\ tasks' = spawn_tasks(tasks)
    /\ UNCHANGED <<app, is_initialized, endpoint_cache, check_queue, health,
                   db_endpoints, check_results, used_ids, enqueued, trigger_calls,
                   enqueue_log>>
    /\ UNCHANGED notification_vars

\* EndpointScheduler.start called at any moment: RuntimeError before a
\* successful initialize(), a warning and return while running, otherwise
\* the tasks are created.
scheduler_start ==
    /\ IF ~is_initialized
       THEN /\ tasks' = [tasks EXCEPT !.last_start = "raised"]
            /\ UNCHANGED <<is_running, worker, sched_sleep>>
       ELSE IF is_running
       THEN /\ tasks' = [tasks EXCEPT !.last_start = "ignored"]
            /\ UNCHANGED <<is_running, worker, sched_sleep>>
       ELSE /\ is_running' = TRUE
            /\ worker' = [w \in Workers |-> IdleWorker]
            /\ sched_sleep' = 0
            /\ tasks' = spawn_tasks(tasks)
    /\ UNCHANGED <<app, is_initialized, endpoint_cache, check_queue, health,
                   db_endpoints, check_results, used_ids, enqueued, trigger_calls,
                   enqueue_log>>
    /\ UNCHANGED notification_vars

\* EndpointScheduler.stop called at any moment.
scheduler_stop ==
    /\ is_running' = FALSE
    /\ worker' = [w \in Workers |-> [IdleWorker EXCEPT !.pc = "stopped"]]
    /\ tasks' = [cancel_tasks(tasks) EXCEPT !.last_start = "none"]
    /\ UNCHANGED <<app, is_initialized, endpoint_cache, check_queue, sched_sleep,
                   health, db_endpoints, check_results, used_ids, enqueued,
                   trigger_calls, enqueue_log>>
    /\ UNCHANGED notification_vars

\* ------------------------------------------------------------ REST events

\* routes.endpoints.create_endpoint: insert the row, then notify_endpoint_created.
create_endpoint(id, freq, active) ==
    /\ app = "serving"
    /\ id \notin used_ids
    /\ db_endpoints' = Put(db_endpoints, id, NewRow(freq, active))
    /\ used_ids' = used_ids \cup {id}
    /\ endpoint_cache' =
          on_endpoint_created(endpoint_cache, id, NewRow(freq, active))
    /\ UNCHANGED <<app, is_initialized, is_running, check_queue, sched_sleep,
                   worker, health, check_results, enqueued, trigger_calls,
                   enqueue_log>>
    /\ UNCHANGED tasks
    /\ UNCHANGED notification_vars

\* routes.endpoints.update_endpoint: update the row, then
\* notify_endpoint_updated(id, endpoint.dict()) with the whole record.
update_endpoint(id, patch) ==
    /\ app = "serving"
    /\ id \in DOMAIN db_endpoints
    /\ LET row == ApplyPatch(db_endpoints[id], patch)
       IN  /\ db_endpoints' = Put(db_endpoints, id, row)
           /\ endpoint_cache' =
                 on_endpoint_updated(endpoint_cache, id, ResponseDict(row))
    /\ enqueue_log' = LogUpdate(enqueue_log, id)
    /\ UNCHANGED <<app, is_initialized, is_running, check_queue, sched_sleep,
                   worker, health, check_results, used_ids, enqueued,
                   trigger_calls>>
    /\ UNCHANGED tasks
    /\ UNCHANGED notification_vars

\* routes.endpoints.delete_endpoint: delete the row, then notify_endpoint_deleted.
delete_endpoint(id) ==
    /\ app = "serving"
    /\ id \in DOMAIN db_endpoints
    /\ db_endpoints' = Del(db_endpoints, id)
    /\ endpoint_cache' = on_endpoint_deleted(endpoint_cache, id)
    /\ enqueue_log' = LogKeep(enqueue_log, endpoint_cache')
    /\ UNCHANGED <<app, is_initialized, is_running, check_queue, sched_sleep,
                   worker, health, check_results, used_ids, enqueued,
                   trigger_calls>>
    /\ UNCHANGED tasks
    /\ UNCHANGED notification_vars

\* WorkspaceService.delete_workspace: the workspace's endpoint rows go with it
\* (ON DELETE CASCADE); the scheduler is not notified.
delete_workspace(ids) ==
    /\ app = "serving"
    /\ ids # {}
    /\ ids \subseteq DOMAIN db_endpoints
    /\ db_endpoints' = [id \in DOMAIN db_endpoints \ ids |-> db_endpoints[id]]
    /\ UNCHANGED <<app, is_initialized, is_running, endpoint_cache, check_queue,
                   sched_sleep, worker, health, check_results, used_ids,
                   enqueued, trigger_calls, enqueue_log>>
    /\ UNCHANGED tasks
    /\ UNCHANGED notification_vars

\* routes.scheduler_status.force_health_check
ForceHealthCheck(db_ok, net_ok) ==
    /\ app = "serving"
    /\ health' = force_health_check(health, db_ok, net_ok)
    /\ UNCHANGED <<app, is_initialized, is_running, endpoint_cache, check_queue,
                   sched_sleep, worker, db_endpoints, check_results, used_ids,
                   enqueued, trigger_calls, enqueue_log>>
    /\ UNCHANGED tasks
    /\ UNCHANGED notification_vars

\* ------------------------------------------------------------ scheduling loop

\* An iteration that advances the due entries also when it skips the scan.
scheduler_loop_advancing_when_skipped(db_ok, net_ok) ==
    /\ is_running
    /\ sched_sleep = 0
    /\    LET h == check_system_health(health, db_ok, net_ok)
          IN  /\ health' = h
              /\ IF ~h.is_system_healthy \/ is_queue_overwhelmed(Len(check_queue))
                 THEN /\ endpoint_cache' = AdvanceDue(endpoint_cache)
                      /\ UNCHANGED <<check_queue, enqueued, enqueue_log>>
                 ELSE /\ enqueue_log' = LogScan(enqueue_log, endpoint_cache)
                      /\ check_queue' =
                            check_queue \o DueEntries(endpoint_cache, enqueued)
                      /\ endpoint_cache' = AdvanceDue(endpoint_cache)
                      /\ enqueued' =
                            [id \in Ids |->
                                IF id \in DueIds(endpoint_cache)
                                THEN Min(enqueued[id] + 1, MaxProbes)
                                ELSE enqueued[id]]
    /\ sched_sleep' = scheduler_interval
    /\ UNCHANGED <<app, is_initialized, is_running, worker, db_endpoints,
                   check_results, used_ids, trigger_calls>>
    /\ UNCHANGED tasks
    /\ UNCHANGED notification_vars

\* One iteration of EndpointScheduler._scheduler_loop: the health check, the
\* overwhelm check, _find_due_endpoints, the puts, then asyncio.sleep.
scheduler_loop(db_ok, net_ok) ==
    /\ is_running
    /\ sched_sleep = 0
    /\    LET h == check_system_health(health, db_ok, net_ok)
          IN  /\ health' = h
              /\ IF ~h.is_system_healthy \/ is_queue_overwhelmed(Len(check_queue))
                 THEN UNCHANGED <<endpoint_cache, check_queue, enqueued,
                                  enqueue_log>>
                 ELSE /\ enqueue_log' = LogScan(enqueue_log, endpoint_cache)
                      /\ check_queue' =
                            check_queue \o DueEntries(endpoint_cache, enqueued)
                      /\ endpoint_cache' = AdvanceDue(endpoint_cache)
                      /\ enqueued' =
                            [id \in Ids |->
                                IF id \in DueIds(endpoint_cache)
                                THEN Min(enqueued[id] + 1, MaxProbes)
                                ELSE enqueued[id]]
    /\ sched_sleep' = scheduler_interval
    /\ UNCHANGED <<app, is_initialized, is_running, worker, db_endpoints,
                   check_results, used_ids, trigger_calls>>
    /\ UNCHANGED tasks
    /\ UNCHANGED notification_vars

\* The scan of _scheduler_loop on its own: _find_due_endpoints and the puts
\* of the tuples it returned, as the code puts them.
snapshot_due ==
    /\ check_queue' = check_queue \o find_due_endpoints(endpoint_cache)
    /\ endpoint_cache' = AdvanceDue(endpoint_cache)
    /\ UNCHANGED <<app, is_initialized, is_running, sched_sleep, worker, health,
                   db_endpoints, check_results, used_ids, enqueued,
                   trigger_calls, enqueue_log>>
    /\ UNCHANGED tasks
    /\ UNCHANGED notification_vars

\* ------------------------------------------------------------ workers

\* What one _perform_http_check returns: success; a failure with retryable
\* True (wrong status, timeout, other errors); a failure with retryable False.
Outcomes == {"success", "retryable", "permanent"}

\* How the store answers _save_check_result: no error, an error on the insert
\* into check_results, an error on the update of endpoints.
Faults == {"none", "insert", "update"}

\* A save that treats the foreign-key violation like any other error: the
\* registry entry stays.
save_check_result_keeping_entry(id, probe, success, fault) ==
    IF fault = "insert" \/ id \notin DOMAIN db_endpoints
    THEN UNCHANGED <<endpoint_cache, db_endpoints, check_results>>
    ELSE LET previous == IF id \in DOMAIN endpoint_cache
                         THEN endpoint_cache[id].consecutive_failures ELSE 0
             consecutive_failures ==
                 IF success THEN 0 ELSE Min(previous + 1, MaxFailures)
             row == [endpoint_id |-> id, success |-> success, probe |-> probe]
         IN  /\ check_results' = Last(Append(check_results, row), MaxResults)
             /\ IF fault = "update"
                THEN UNCHANGED <<endpoint_cache, db_endpoints>>
                ELSE /\ db_endpoints' =
                           [db_endpoints EXCEPT ![id].consecutive_failures =
                                                    consecutive_failures]
                     /\ endpoint_cache' =
                           IF id \in DOMAIN endpoint_cache
                           THEN [endpoint_cache EXCEPT
                                    ![id].consecutive_failures = consecutive_failures]
                           ELSE endpoint_cache

\* EndpointScheduler._save_check_result
save_check_result(id, probe, success, fault) ==
    IF fault = "insert"
    THEN UNCHANGED <<endpoint_cache, db_endpoints, check_results>>
    ELSE IF id \notin DOMAIN db_endpoints
    THEN \* the insert violates check_results_endpoint_id_fkey
         /\ endpoint_cache' = on_endpoint_deleted(endpoint_cache, id)
         /\ UNCHANGED <<db_endpoints, check_results>>
    ELSE LET previous == IF id \in DOMAIN endpoint_cache
                         THEN endpoint_cache[id].consecutive_failures ELSE 0
             consecutive_failures ==
                 IF success THEN 0 ELSE Min(previous + 1, MaxFailures)
             row == [endpoint_id |-> id, success |-> success, probe |-> probe]
         IN  /\ check_results' = Last(Append(check_results, row), MaxResults)
             /\ IF fault = "update"
                THEN UNCHANGED <<endpoint_cache, db_endpoints>>
                ELSE /\ db_endpoints' =
                           [db_endpoints EXCEPT ![id].consecutive_failures =
                                                    consecutive_failures]
                     /\ endpoint_cache' =
                           IF id \in DOMAIN endpoint_cache
                           THEN [endpoint_cache EXCEPT
                                    ![id].consecutive_failures = consecutive_failures]
                           ELSE endpoint_cache

\* A worker that probes whatever id it takes from the queue.
worker_get_without_lookup(w) ==
    /\ is_running
    /\ worker[w].pc = "idle"
    /\ check_queue # <<>>
    /\ LET entry == Head(check_queue)
       IN  /\ check_queue' = Tail(check_queue)
           /\ worker' = [worker EXCEPT ![w] =
                            [pc |-> "attempt1", endpoint_id |-> entry.endpoint_id,
                             probe |-> entry.probe, sleep |-> 0]]
    /\ UNCHANGED <<app, is_initialized, is_running, endpoint_cache, sched_sleep,
                   health, db_endpoints, check_results, used_ids, enqueued,
                   trigger_calls, enqueue_log>>
    /\ UNCHANGED tasks
    /\ UNCHANGED notification_vars

\* _worker: check_queue.get(), then _check_endpoint_with_retry up to the first
\* await of _perform_http_check; an id missing from the cache is dropped.
worker_get(w) ==
    /\ is_running
    /\ worker[w].pc = "idle"
    /\ check_queue # <<>>
    /\ LET entry == Head(check_queue)
       IN  /\ check_queue' = Tail(check_queue)
           /\ worker' =
                 IF entry.endpoint_id \in DOMAIN endpoint_cache
                 THEN [worker EXCEPT ![w] =
                          [pc |-> "attempt1", endpoint_id |-> entry.endpoint_id,
                           probe |-> entry.probe, sleep |-> 0]]
                 ELSE worker
    /\ UNCHANGED <<app, is_initialized, is_running, endpoint_cache, sched_sleep,
                   health, db_endpoints, check_results, used_ids, enqueued,
                   trigger_calls, enqueue_log>>
    /\ UNCHANGED tasks
    /\ UNCHANGED notification_vars

\* A worker that retries after every failure of the first attempt, the
\* non-retryable ones too.
worker_attempt1_retry_any(w, outcome, fault) ==
    /\ is_running
    /\ worker[w].pc = "attempt1"
    /\ IF outcome # "success"
       THEN /\ worker' = [worker EXCEPT ![w].pc = "sleeping",
                                        ![w].sleep = retry_delay]
            /\ UNCHANGED <<endpoint_cache, db_endpoints, check_results>>
       ELSE /\ save_check_result(worker[w].endpoint_id, worker[w].probe,
                                 outcome = "success", fault)
            /\ worker' = [worker EXCEPT ![w] = IdleWorker]
    /\ enqueue_log' = LogKeep(enqueue_log, endpoint_cache')
    /\ UNCHANGED <<app, is_initialized, is_running, check_queue, sched_sleep,
                   health, used_ids, enqueued, trigger_calls>>
    /\ UNCHANGED tasks
    /\ UNCHANGED notification_vars

\* A worker that saves the failed first attempt before it retries.
worker_attempt1_saving_first(w, outcome, fault) ==
    /\ is_running
    /\ worker[w].pc = "attempt1"
    /\ save_check_result(worker[w].endpoint_id, worker[w].probe,
                         outcome = "success", fault)
    /\ worker' =
          IF outcome = "retryable"
          THEN [worker EXCEPT ![w].pc = "sleeping", ![w].sleep = retry_delay]
          ELSE [worker EXCEPT ![w] = IdleWorker]
    /\ enqueue_log' = LogKeep(enqueue_log, endpoint_cache')
    /\ UNCHANGED <<app, is_initialized, is_running, check_queue, sched_sleep,
                   health, used_ids, enqueued, trigger_calls>>
    /\ UNCHANGED tasks
    /\ UNCHANGED notification_vars

\* The first _perform_http_check returns: a retryable failure starts
\* asyncio.sleep(retry_delay), anything else is saved.
worker_attempt1(w, outcome, fault) ==
    /\ is_running
    /\ worker[w].pc = "attempt1"
    /\ IF outcome = "retryable"
       THEN /\ worker' = [worker EXCEPT ![w].pc = "sleeping",
                                        ![w].sleep = retry_delay]
            /\ UNCHANGED <<endpoint_cache, db_endpoints, check_results>>
       ELSE /\ save_check_result(worker[w].endpoint_id, worker[w].probe,
                                 outcome = "success", fault)
            /\ worker' = [worker EXCEPT ![w] = IdleWorker]
    /\ enqueue_log' = LogKeep(enqueue_log, endpoint_cache')
    /\ UNCHANGED <<app, is_initialized, is_running, check_queue, sched_sleep,
                   health, used_ids, enqueued, trigger_calls>>
    /\ UNCHANGED tasks
    /\ UNCHANGED notification_vars

\* The retry delay is over: the second _perform_http_check starts.
worker_retry(w) ==
    /\ is_running
    /\ worker[w].pc = "sleeping"
    /\ worker[w].sleep = 0
    /\ worker' = [worker EXCEPT ![w].pc = "attempt2"]
    /\ UNCHANGED <<app, is_initialized, is_running, endpoint_cache, check_queue,
                   sched_sleep, health, db_endpoints, check_results, used_ids,
                   enqueued, trigger_calls, enqueue_log>>
    /\ UNCHANGED tasks
    /\ UNCHANGED notification_vars

\* The second _perform_http_check returns and its result is saved.
worker_attempt2(w, outcome, fault) ==
    /\ is_running
    /\ worker[w].pc = "attempt2"
    /\ save_check_result(worker[w].endpoint_id, worker[w].probe,
                         outcome = "success", fault)
    /\ worker' = [worker EXCEPT ![w] = IdleWorker]
    /\ enqueue_log' = LogKeep(enqueue_log, endpoint_cache')
    /\ UNCHANGED <<app, is_initialized, is_running, check_queue, sched_sleep,
                   health, used_ids, enqueued, trigger_calls>>
    /\ UNCHANGED tasks
    /\ UNCHANGED notification_vars

\* ------------------------------------------------------------ time

\* Ten seconds pass.
Tick ==
    /\ is_running
    /\ endpoint_cache' =
          [id \in DOMAIN endpoint_cache |->
              [endpoint_cache[id] EXCEPT !.next_check_time = Shift(@, MaxLate)]]
    /\ sched_sleep' = Max(sched_sleep - 1, 0)
    /\ worker' = [w \in Workers |-> [worker[w] EXCEPT !.sleep = Max(@ - 1, 0)]]
    /\ health' = [health EXCEPT !.last_health_check = Shift(@, check_interval)]
    /\ enqueue_log' = LogTick(enqueue_log, endpoint_cache)
    /\ UNCHANGED <<app, is_initialized, is_running, check_queue, db_endpoints,
                   check_results, used_ids, enqueued, trigger_calls>>
    /\ UNCHANGED tasks
    /\ UNCHANGED notification_vars

\* ------------------------------------------------------------ notification actions

\* OutageNotificationService.start: the loop begins with an iteration.
notification_start ==
    /\ ~notification_loop.is_running
    /\ notification_loop' =
          [StoppedLoop EXCEPT !.is_running = TRUE, !.pc = "sleeping"]
    /\ UNCHANGED <<global_email_state, sent_emails, read_errors>>
    /\ UNCHANGED engine_vars

\* OutageNotificationService.handle_endpoint_failure, as the table
\* global_email_state after it.
email_state_after_failure(user_id, endpoint_id, threshold, consecutive_failures) ==
    IF consecutive_failures < threshold
    THEN global_email_state
    ELSE LET table == get_or_create_email_state(global_email_state, user_id)
             email_state == table[user_id]
         IN  IF is_in_cooldown(email_state) THEN table
             ELSE IF ~email_state.buffer_active
             THEN Put(table, user_id,
                      start_buffer_window(email_state, endpoint_id))
             ELSE Put(table, user_id,
                      add_to_buffer(email_state, endpoint_id))

\* OutageNotificationService.handle_endpoint_failure
handle_endpoint_failure(user_id, endpoint_id, threshold, consecutive_failures) ==
    /\ global_email_state' =
          email_state_after_failure(user_id, endpoint_id, threshold,
                                    consecutive_failures)
    /\ UNCHANGED <<notification_loop, sent_emails, read_errors>>
    /\ UNCHANGED engine_vars

\* What NotificationTrigger._get_endpoint_with_user_data returns: None, or
\* the endpoint's owner and its consecutive_failures.
EndpointReads ==
    {Null} \cup {<<[user_id |-> u, consecutive_failures |-> n]>> :
                    u \in Users, n \in 1..MaxFailures}

\* What NotificationTrigger._get_user_notification_settings returns: None,
\* or the user's settings.
SettingsReads ==
    {Null} \cup {<<[email_notifications_enabled |-> b, failure_threshold |-> 2]>> :
                    b \in BOOLEAN}

\* The condition under which handle_endpoint_check calls
\* handle_endpoint_failure.
HandsOver(success, endpoint_data, user_settings) ==
    /\ ~success
    /\ endpoint_data # Null
    /\ user_settings # Null
    /\ user_settings[1].email_notifications_enabled
    /\ endpoint_data[1].consecutive_failures >= user_settings[1].failure_threshold

\* A bridge that does not look at email_notifications_enabled.
handle_endpoint_check_ignoring_enabled(endpoint_id, success, endpoint_data, user_settings) ==
    LET handed == /\ ~success
                  /\ endpoint_data # Null
                  /\ user_settings # Null
                  /\ endpoint_data[1].consecutive_failures
                        >= user_settings[1].failure_threshold
    IN  /\ global_email_state' =
              IF handed
              THEN email_state_after_failure(endpoint_data[1].user_id, endpoint_id,
                                             user_settings[1].failure_threshold,
                                             endpoint_data[1].consecutive_failures)
              ELSE global_email_state
        /\ trigger_calls' =
              {[endpoint_id |-> endpoint_id, success |-> success,
                handed_over |-> handed]}
        /\ UNCHANGED <<notification_loop, sent_emails, read_errors>>
        /\ UNCHANGED <<app, is_initialized, is_running, endpoint_cache,
                       check_queue, sched_sleep, worker, health, db_endpoints,
                       check_results, used_ids, enqueued, enqueue_log,
                       tasks>>

\* NotificationTrigger.handle_endpoint_check, with the results of its two
\* reads as inputs; trigger_calls keeps the latest call.
handle_endpoint_check(endpoint_id, success, endpoint_data, user_settings) ==
    LET handed == HandsOver(success, endpoint_data, user_settings)
    IN  /\ global_email_state' =
              IF handed
              THEN email_state_after_failure(endpoint_data[1].user_id, endpoint_id,
                                             user_settings[1].failure_threshold,
                                             endpoint_data[1].consecutive_failures)
              ELSE global_email_state
        /\ trigger_calls' =
              {[endpoint_id |-> endpoint_id, success |-> success,
                handed_over |-> handed]}
        /\ UNCHANGED <<notification_loop, sent_emails, read_errors>>
        /\ UNCHANGED <<app, is_initialized, is_running, endpoint_cache,
                       check_queue, sched_sleep, worker, health, db_endpoints,
                       check_results, used_ids, enqueued, enqueue_log,
                       tasks>>

\* OutageNotificationService.handle_endpoint_failure when the select of
\* _get_or_create_email_state raises: the error is caught and the default
\* state {buffer_active: False, cooldown_level: 0} is returned, which is
\* neither in cooldown nor buffering, so _start_buffer_window updates the
\* user's row.
handle_endpoint_failure_read_error(user_id, endpoint_id, threshold, consecutive_failures) ==
    /\ consecutive_failures >= threshold
    /\ read_errors < MaxReadErrors
    /\ read_errors' = read_errors + 1
    /\ global_email_state' =
          IF user_id \in DOMAIN global_email_state
          THEN Put(global_email_state, user_id,
                   start_buffer_window(global_email_state[user_id], endpoint_id))
          ELSE global_email_state
    /\ UNCHANGED <<notification_loop, sent_emails>>
    /\ UNCHANGED engine_vars

\* What _send_buffer_notification finds before it sends: settings with
\* notifications enabled and endpoint details ("send"), notifications
\* disabled or no settings, or no endpoint details.
FlushReads == {"send", "disabled", "no_details"}

\* The end of an iteration of _notification_loop: _cleanup_expired_cooldowns,
\* then asyncio.sleep(check_interval).
EndIteration(table) ==
    /\ global_email_state' = cleanup_expired_cooldowns(table)
    /\ notification_loop' =
          [notification_loop EXCEPT !.pc = "sleeping",
                                    !.sleep = notification_check_interval,
                                    !.user_id = 0,
                                    !.buffer_state = ReadyRow]

\* An iteration of _notification_loop up to its first await that suspends:
\* _process_expired_buffers selects the expired buffer and
\* _send_buffer_notification either starts to send the email or resets the
\* user; without an expired buffer the iteration runs to its sleep.
notification_tick(read) ==
    /\ notification_loop.is_running
    /\ notification_loop.pc = "sleeping"
    /\ notification_loop.sleep = 0
    /\ LET expired == ExpiredBuffers(global_email_state)
       IN  IF expired = {}
           THEN EndIteration(global_email_state) /\ UNCHANGED sent_emails
           ELSE LET user_id == CHOOSE u \in expired : TRUE
                IN  IF read = "send"
                    THEN /\ notification_loop' =
                               [notification_loop EXCEPT
                                   !.pc = "sending",
                                   !.user_id = user_id,
                                   !.buffer_state = global_email_state[user_id]]
                         /\ UNCHANGED <<global_email_state, sent_emails>>
                    ELSE /\ EndIteration(reset_user_to_ready_state(
                                            global_email_state, user_id))
                         /\ sent_emails' = [sent_emails EXCEPT !.cooldowns = <<>>]
    /\ UNCHANGED read_errors
    /\ UNCHANGED engine_vars

\* _send_outage_email returns: on success the notification is recorded and
\* the cooldown started, otherwise the user is reset; then the iteration ends.
notification_sent(success, fault) ==
    /\ notification_loop.pc = "sending"
    /\ LET user_id == notification_loop.user_id
           level   == notification_loop.buffer_state.cooldown_level
           started == success /\ fault = "none"
                              /\ user_id \in DOMAIN global_email_state
       IN  /\ EndIteration(
                 IF success
                 THEN record_notification_and_start_cooldown(
                          global_email_state, user_id, level, fault)
                 ELSE reset_user_to_ready_state(global_email_state, user_id))
           /\ sent_emails' =
                 [since |-> IF success THEN 0 ELSE sent_emails.since,
                  gap |-> IF success THEN sent_emails.since ELSE sent_emails.gap,
                  cooldowns |->
                      IF ~success THEN <<>>
                      ELSE IF started /\ Len(sent_emails.cooldowns) < MaxCycles
                      THEN Append(sent_emails.cooldowns,
                                  get_next_cooldown(level).hours)
                      ELSE sent_emails.cooldowns,
                  last |-> IF success THEN "sent" ELSE "failed"]
    /\ UNCHANGED read_errors
    /\ UNCHANGED engine_vars

\* One minute passes; a running loop wakes up when its sleep is over, and an
\* email is sent within the minute.
Minute ==
    /\ \/ ~notification_loop.is_running
       \/ notification_loop.pc = "sleeping" /\ notification_loop.sleep > 0
    /\ global_email_state' =
          [u \in DOMAIN global_email_state |->
              LET row == global_email_state[u]
              IN  [row EXCEPT
                     !.buffer_started_at =
                         IF @ = Null THEN @ ELSE At(Shift(@[1], buffer_minutes + 1)),
                     !.cooldown_expires_at =
                         IF @ = Null THEN @ ELSE At(Shift(@[1], 1))]]
    /\ notification_loop' =
          [notification_loop EXCEPT !.sleep = Max(@ - 1, 0)]
    /\ sent_emails' = [sent_emails EXCEPT !.since = Min(@ + 1, MaxGap)]
    /\ UNCHANGED read_errors
    /\ UNCHANGED engine_vars

\* ------------------------------------------------------------ specifications

\* The monitoring engine: startup, the loop, the workers with every outcome
\* of a probe and of the store, deletion of the endpoint, shutdown, time.
\* The health subchecks succeed.
Next ==
    \/ initialize
    \/ start
    \/ stop
    \/ \E id \in Ids : delete_endpoint(id)
    \/ \E ids \in SUBSET Ids : delete_workspace(ids)
    \/ scheduler_loop(TRUE, TRUE)
    \/ \E w \in Workers : worker_get(w)
    \/ \E w \in Workers, outcome \in Outcomes, fault \in Faults :
          worker_attempt1(w, outcome, fault)
    \/ \E w \in Workers : worker_retry(w)
    \/ \E w \in Workers, outcome \in Outcomes, fault \in Faults :
          worker_attempt2(w, outcome, fault)
    \/ Tick

Spec == Init /\ [][Next]_vars

\* The engine when endpoint rows disappear only by cascade, without a
\* notification to the scheduler: the workers find out on the insert.
CascadeNext ==
    \/ initialize
    \/ start
    \/ \E ids \in SUBSET Ids : delete_workspace(ids)
    \/ scheduler_loop(TRUE, TRUE)
    \/ \E w \in Workers : worker_get(w)
    \/ \E w \in Workers, outcome \in Outcomes, fault \in Faults :
          worker_attempt1(w, outcome, fault)
    \/ \E w \in Workers : worker_retry(w)
    \/ \E w \in Workers, outcome \in Outcomes, fault \in Faults :
          worker_attempt2(w, outcome, fault)
    \/ Tick

CascadeSpec == Init /\ [][CascadeNext]_vars

\* The scheduler's three lifecycle methods called in any order, any number
\* of times, with the loop and the workers running in between.
TaskNext ==
    \/ \E load_ok \in BOOLEAN : scheduler_initialize(load_ok)
    \/ scheduler_start
    \/ scheduler_stop
    \/ scheduler_loop(TRUE, TRUE)
    \/ \E w \in Workers : worker_get(w)
    \/ \E w \in Workers : worker_attempt1(w, "success", "none")
    \/ Tick

TaskSpec == Init /\ [][TaskNext]_vars

\* The engine under failing health subchecks: the loop and the status route
\* with every result of the subchecks; probes succeed and the store answers.
HealthNext ==
    \/ initialize
    \/ start
    \/ \E db_ok \in BOOLEAN, net_ok \in BOOLEAN : ForceHealthCheck(db_ok, net_ok)
    \/ \E db_ok \in BOOLEAN, net_ok \in BOOLEAN : scheduler_loop(db_ok, net_ok)
    \/ \E w \in Workers : worker_get(w)
    \/ \E w \in Workers : worker_attempt1(w, "success", "none")
    \/ Tick

HealthSpec == Init /\ [][HealthNext]_vars

\* The registry under the REST events: create, update, delete, cascade
\* delete, with the loop scanning and the workers draining the queue.
RegistryNext ==
    \/ initialize
    \/ start
    \/ \E id \in Ids, freq \in Freqs, active \in BOOLEAN :
          create_endpoint(id, freq, active)
    \/ \E id \in Ids, patch \in Patches : update_endpoint(id, patch)
    \/ \E id \in Ids : delete_endpoint(id)
    \/ \E ids \in SUBSET Ids : delete_workspace(ids)
    \/ scheduler_loop(TRUE, TRUE)
    \/ \E w \in Workers : worker_get(w)
    \/ \E w \in Workers : worker_attempt1(w, "success", "none")
    \/ Tick

RegistrySpec == Init /\ [][RegistryNext]_vars

\* The schedule of the enqueues: the registry's events, the scans and the
\* workers as in RegistryNext, with the enqueues of every endpoint observed.
ScheduleInit ==
    /\ app = "startup"
    /\ is_initialized = FALSE
    /\ is_running = FALSE
    /\ endpoint_cache = <<>>
    /\ check_queue = <<>>
    /\ sched_sleep = 0
    /\ worker = [w \in Workers |-> IdleWorker]
    /\ health = InitHealth
    /\ db_endpoints \in StartRows
    /\ check_results = <<>>
    /\ used_ids = DOMAIN db_endpoints
    /\ enqueued = [id \in Ids |-> 0]
    /\ trigger_calls = {}
    /\ enqueue_log = [id \in Ids |-> NoEnqueue]
    /\ global_email_state = <<>>
    /\ notification_loop = StoppedLoop
    /\ sent_emails = [since |-> MaxGap, gap |-> MaxGap, cooldowns |-> <<>>,
                      last |-> "none"]
    /\ read_errors = 0
    /\ tasks = NoTasks

ScheduleSpec == ScheduleInit /\ [][RegistryNext]_vars

\* _find_due_endpoints as a function of the registry: one scan of every
\* registry over SnapIds.
SnapshotInit ==
    /\ app = "serving"
    /\ is_initialized = TRUE
    /\ is_running = TRUE
    /\ endpoint_cache \in UNION {[D -> SnapEntries] : D \in SUBSET SnapIds}
    /\ check_queue = <<>>
    /\ sched_sleep = 0
    /\ worker = [w \in Workers |-> IdleWorker]
    /\ health = InitHealth
    /\ db_endpoints = <<>>
    /\ check_results = <<>>
    /\ used_ids = {}
    /\ enqueued = [id \in Ids |-> 0]
    /\ trigger_calls = {}
    /\ enqueue_log = <<>>
    /\ global_email_state = <<>>
    /\ notification_loop = StoppedLoop
    /\ sent_emails = [since |-> MaxGap, gap |-> MaxGap, cooldowns |-> <<>>,
                      last |-> "none"]
    /\ read_errors = 0
    /\ tasks = NoTasks

SnapshotSpec == SnapshotInit /\ [][snapshot_due]_vars

\* The registry's liveness: one endpoint under update events that keep it
\* active, the loop scanning, the workers draining the queue, time passing.
\* asyncio runs the loop when its sleep is over and a worker when its await
\* returns, and time passes: weak fairness of these steps.
LiveNext ==
    \/ initialize
    \/ start
    \/ \E id \in Ids, patch \in Patches :
          patch.is_active # "off" /\ update_endpoint(id, patch)
    \/ scheduler_loop(TRUE, TRUE)
    \/ \E w \in Workers : worker_get(w)
    \/ \E w \in Workers : worker_attempt1(w, "success", "none")
    \/ Tick

LiveSpec ==
    /\ Init
    /\ [][LiveNext]_vars
    /\ WF_vars(Tick)
    /\ WF_vars(scheduler_loop(TRUE, TRUE))
    /\ \A w \in Workers :
          WF_vars(worker_get(w) \/ worker_attempt1(w, "success", "none"))

\* The notification coordinator on its own: failure events of one user, the
\* loop's iterations with every result of the reads, of the send and of the
\* store, and time in minutes.
NotificationNext ==
    \/ notification_start
    \/ \E user_id \in Users, endpoint_id \in Ids, consecutive_failures \in {1, 2} :
          handle_endpoint_failure(user_id, endpoint_id, 2, consecutive_failures)
    \/ \E read \in FlushReads : notification_tick(read)
    \/ \E success \in BOOLEAN, fault \in RecordFaults :
          notification_sent(success, fault)
    \/ Minute

\* The notification service never reads the endpoints table: the
\* specification starts with it empty.
NotificationInit == Init /\ db_endpoints = <<>>

NotificationSpec == NotificationInit /\ [][NotificationNext]_vars

\* The endpoints of a user whose failures reach the coordinator.
FailingEndpoints == {1, 2}

\* The notification coordinator with failure events of two endpoints of the
\* user, handled at any moment, also while the loop waits for the email.
BufferNext ==
    \/ notification_start
    \/ \E user_id \in Users, endpoint_id \in FailingEndpoints :
          handle_endpoint_failure(user_id, endpoint_id, 2, 2)
    \/ \E read \in FlushReads : notification_tick(read)
    \/ \E success \in BOOLEAN, fault \in RecordFaults :
          notification_sent(success, fault)
    \/ Minute

BufferSpec == NotificationInit /\ [][BufferNext]_vars

\* The notification coordinator with a store whose select of the user's
\* notification state can fail.
ReadErrorNext ==
    \/ NotificationNext
    \/ \E user_id \in Users, endpoint_id \in Ids :
          handle_endpoint_failure_read_error(user_id, endpoint_id, 2, 2)

ReadErrorSpec == NotificationInit /\ [][ReadErrorNext]_vars

\* The notification coordinator fed through the bridge: every failure event
\* is a call of handle_endpoint_check, with every result of its reads.
TriggerNext ==
    \/ notification_start
    \/ \E endpoint_id \in Ids, success \in BOOLEAN,
          endpoint_data \in EndpointReads, user_settings \in SettingsReads :
          handle_endpoint_check(endpoint_id, success, endpoint_data, user_settings)
    \/ \E read \in FlushReads : notification_tick(read)
    \/ \E success \in BOOLEAN, fault \in RecordFaults :
          notification_sent(success, fault)
    \/ Minute

TriggerSpec == NotificationInit /\ [][TriggerNext]_vars

\* The process as lifespan runs it: SchedulerManager.initialize (initialize,
\* then start) at startup and SchedulerManager.shutdown at the end; nothing
\* in it calls OutageNotificationService.start.  Failure events reach the
\* coordinator and time passes in minutes.
LifespanNext ==
    \/ initialize
    \/ start
    \/ stop
    \/ \E user_id \in Users, endpoint_id \in Ids, consecutive_failures \in {1, 2} :
          handle_endpoint_failure(user_id, endpoint_id, 2, consecutive_failures)
    \/ Minute

LifespanSpec == Init /\ [][LifespanNext]_vars

\* ------------------------------------------------------------ claims

\* The positions of a worker between check_queue.get() and the end of
\* _check_endpoint_with_retry: it holds the probe of worker[w].endpoint_id.
Holding(w) == worker[w].pc \in {"attempt1", "sleeping", "attempt2"}

\* C1: at most one probe is in flight per endpoint at any time: two workers
\* never hold the same endpoint id simultaneously.
C1_OneProbeInFlight ==
    \A w1 \in Workers, w2 \in Workers :
        (w1 # w2 /\ Holding(w1) /\ Holding(w2))
            => worker[w1].endpoint_id # worker[w2].endpoint_id

\* C4: every probe whose outcome is a final failure is handed to the
\* notification bridge after being persisted: each failure row of
\* check_results has its call of handle_endpoint_check.
C4_FailureHandedOver ==
    \A i \in DOMAIN check_results :
        ~check_results[i].success
            => \E c \in trigger_calls :
                  /\ c.endpoint_id = check_results[i].endpoint_id
                  /\ ~c.success

\* The number of failure rows at the end of a sequence of rows.
RECURSIVE TailFailures(_)
TailFailures(rows) ==
    IF rows = <<>> \/ rows[Len(rows)].success THEN 0
    ELSE 1 + TailFailures(SubSeq(rows, 1, Len(rows) - 1))

\* The persisted rows of one endpoint, oldest first.
RowsOf(id) == SelectSeq(check_results, LAMBDA r : r.endpoint_id = id)

\* C9: the registry's consecutive_failures of an endpoint equals the length
\* of the tail of its most recent persisted outcomes that are failures, also
\* when a persistence write fails part-way.
C9_FailuresMatchRows ==
    \A id \in DOMAIN endpoint_cache :
        endpoint_cache[id].consecutive_failures =
            Min(TailFailures(RowsOf(id)), MaxFailures)

\* C10: for one endpoint, results are persisted in the order the probes were
\* enqueued: no row of a later probe precedes a row of an earlier one.
C10_RowsInProbeOrder ==
    \A i \in DOMAIN check_results, j \in DOMAIN check_results :
        (i < j /\ check_results[i].endpoint_id = check_results[j].endpoint_id)
            => check_results[i].probe <= check_results[j].probe

\* C2: while the health monitor is unhealthy, no worker executes a probe and
\* no row of check_results is persisted.
C2_PausedWhileUnhealthy ==
    [][~health.is_system_healthy
          => /\ \A w \in Workers : ~Holding(w)
             /\ check_results' = check_results]_vars

\* C7: an update event that carries the frequency the registry entry already
\* has leaves the entry's next_check_time unchanged.
C7_SameFrequencyKeepsNextCheck ==
    [][\A id \in DOMAIN endpoint_cache, patch \in Patches :
          (/\ update_endpoint(id, patch)
           /\ db_endpoints'[id].frequency_minutes =
                 endpoint_cache[id].frequency_minutes)
              => endpoint_cache'[id].next_check_time =
                    endpoint_cache[id].next_check_time]_vars

\* C8: while the scheduler runs, the registry has an entry for an endpoint
\* iff the endpoint exists in table endpoints with is_active true.
C8_RegistryIsActiveRows ==
    is_running
        => DOMAIN endpoint_cache =
              {id \in DOMAIN db_endpoints : db_endpoints[id].is_active}

\* The endpoint is in the registry, active, and the scheduler runs.
Monitored(id) ==
    /\ is_running
    /\ id \in DOMAIN endpoint_cache
    /\ endpoint_cache[id].is_active

\* An entry of the endpoint is in the probe queue.
Queued(id) == \E i \in DOMAIN check_queue : check_queue[i].endpoint_id = id

\* C6 as stated: an endpoint that remains in the registry with is_active true
\* is enqueued again and again, under any interleaving of REST events that
\* keep it present and active.
C6_AlwaysEnqueuedAgain ==
    \A id \in Ids : <>[]Monitored(id) => []<>Queued(id)

\* C6 amended: an endpoint that remains in the registry with is_active true
\* is enqueued again and again provided that, from some time on, no update
\* event is applied to it.
C6_EnqueuedOnceUpdatesCease ==
    \A id \in Ids :
        (/\ <>[]Monitored(id)
         /\ <>[][\A patch \in Patches : ~update_endpoint(id, patch)]_vars)
            => []<>Queued(id)

\* C6 witness: after an update the endpoint is enqueued for the second time.
C6_Witness ==
    /\ Monitored(1)
    /\ \E i \in DOMAIN check_queue :
          check_queue[i].endpoint_id = 1 /\ check_queue[i].probe = 2

\* The cooldown level after n consecutive outage cycles that started at
\* level 0, each cycle moving to the next level of the cooldown cycle.
RECURSIVE LevelAfter(_)
LevelAfter(n) ==
    IF n = 0 THEN 0 ELSE get_next_cooldown(LevelAfter(n - 1)).level

\* C3: consecutive outage cycles of a user produce cooldowns of 1 h, 2 h,
\* 3 h, 5 h and then 1 h again: the level is carried from one cycle to the
\* next and is not reset when a cooldown expires.
C3_CooldownsEscalate ==
    \A n \in DOMAIN sent_emails.cooldowns :
        sent_emails.cooldowns[n] = get_next_cooldown(LevelAfter(n - 1)).hours

\* C5: any two outage emails of a user are at least 75 minutes apart, the
\* 15-minute buffer plus the minimum cooldown of one hour.
C5_EmailsSpaced ==
    sent_emails.gap >= buffer_minutes + get_next_cooldown(0).hours * minutes_per_hour

\* A step in which a health check runs to its end with the given result:
\* the status route's forced check, or the loop's check when the interval
\* since the last one has passed.
CheckCompletes(ok) ==
    \E db_ok \in BOOLEAN, net_ok \in BOOLEAN :
        /\ (db_ok /\ net_ok) = ok
        /\ \/ ForceHealthCheck(db_ok, net_ok)
           \/ /\ scheduler_loop(db_ok, net_ok)
              /\ 0 - health.last_health_check >= check_interval

\* C11: from Healthy the monitor becomes Unhealthy exactly when the
\* failure_threshold-th consecutive failed check completes: a failed check
\* adds one to consecutive_failures and trips the breaker iff the count
\* reaches failure_threshold, a successful check resets the count to 0 and
\* keeps the monitor healthy, and no other step makes it unhealthy.
C11_TripsAtThreshold ==
    [][health.is_system_healthy =>
          /\ health.consecutive_failures < failure_threshold
          /\ CheckCompletes(TRUE) =>
                /\ health'.is_system_healthy
                /\ health'.consecutive_failures = 0
          /\ CheckCompletes(FALSE) =>
                /\ health'.consecutive_failures = health.consecutive_failures + 1
                /\ health'.is_system_healthy =
                      (health.consecutive_failures + 1 < failure_threshold)
          /\ ~health'.is_system_healthy => CheckCompletes(FALSE)]_vars

\* C11 witness: the breaker has just tripped on the failure_threshold-th
\* failed check in a row.
C11_Witness ==
    /\ ~health.is_system_healthy
    /\ health.consecutive_failures = failure_threshold
    /\ health.last_health_check = 0

\* C12: from Unhealthy the monitor becomes Healthy exactly when the
\* success_threshold-th consecutive successful check completes: a successful
\* check adds one to consecutive_successes and recovers iff the count reaches
\* success_threshold, a failed check resets the count to 0 and keeps the
\* monitor unhealthy, and no other step makes it healthy.
C12_RecoversAtThreshold ==
    [][~health.is_system_healthy =>
          /\ health.consecutive_successes < success_threshold
          /\ CheckCompletes(FALSE) =>
                /\ ~health'.is_system_healthy
                /\ health'.consecutive_successes = 0
          /\ CheckCompletes(TRUE) =>
                /\ health'.is_system_healthy =
                      (health.consecutive_successes + 1 >= success_threshold)
                /\ ~health'.is_system_healthy =>
                      health'.consecutive_successes =
                          health.consecutive_successes + 1
          /\ health'.is_system_healthy => CheckCompletes(TRUE)]_vars

\* C12 witness: the monitor has just recovered; a check ran and left both
\* counters at 0, which only the recovery does.
C12_Witness ==
    /\ health.is_system_healthy
    /\ health.consecutive_successes = 0
    /\ health.consecutive_failures = 0
    /\ health.last_health_check = 0

\* A step of the scheduling loop that reaches _find_due_endpoints: the
\* system is healthy and the queue is not overwhelmed.
ScanStep ==
    /\ scheduler_loop(TRUE, TRUE)
    /\ ~is_queue_overwhelmed(Len(check_queue))

\* The positions in the queue of the entries a scan step has put.
PutPositions == (Len(check_queue) + 1)..Len(check_queue')

\* C13: two consecutive enqueues of an endpoint are at least
\* frequency_minutes * 60 seconds apart, the frequency being the one the
\* registry entry has at the second enqueue, and one scan enqueues an
\* endpoint at most once, under any interleaving of scans, skipped ticks and
\* registry events.
C13_EnqueuesSeparated ==
    [][ScanStep =>
          \A id \in DOMAIN enqueue_log :
              LET put == {i \in PutPositions : check_queue'[i].endpoint_id = id}
              IN  /\ Cardinality(put) <= 1
                  /\ (put # {} /\ enqueued[id] > 0) =>
                        enqueue_log[id].since >=
                            endpoint_cache[id].frequency_minutes * units_per_minute]_vars

\* C13 witness: the endpoint has just been enqueued for the second time.
C13_Witness ==
    /\ 1 \in DOMAIN enqueue_log
    /\ enqueued[1] = 2
    /\ enqueue_log[1].since = 0
    /\ Monitored(1)

\* C14: for an endpoint that is never updated while the system is healthy,
\* the k-th enqueue comes after (first due instant + (k-1) * frequency) by
\* at most scheduler_interval, for every k.
C14_DriftBounded ==
    \A id \in DOMAIN enqueue_log : enqueue_log[id].drift <= scheduler_interval

\* C15: right after every scan of the registry, every entry has
\* next_check_time >= now - scheduler_interval.
C15_NoEntryLeftBehind ==
    [][ScanStep =>
          \A id \in DOMAIN endpoint_cache' :
              endpoint_cache'[id].next_check_time >= 0 - scheduler_interval]_vars

\* C16: the probe queue holds at most one entry of any endpoint id at any
\* time.
C16_OneEntryPerEndpoint ==
    \A i \in DOMAIN check_queue, j \in DOMAIN check_queue :
        check_queue[i].endpoint_id = check_queue[j].endpoint_id => i = j

\* C18: the prober is invoked at most twice per dequeued entry: the second
\* attempt starts only from the retry delay, the retry delay starts iff the
\* first attempt failed with a retryable failure (a success and a permanent
\* failure end the work on the entry), and the second attempt ends the work
\* on the entry whatever its outcome.
C18_AtMostOneRetry ==
    [][\A w \in Workers :
          /\ (worker[w].pc = "attempt1" /\ worker'[w] # worker[w]) =>
                \A outcome \in Outcomes, fault \in Faults :
                    worker_attempt1(w, outcome, fault) =>
                        /\ (worker'[w].pc = "sleeping") = (outcome = "retryable")
                        /\ outcome # "retryable" => worker'[w].pc = "idle"
          /\ (worker[w].pc # "sleeping" /\ worker'[w].pc = "sleeping") =>
                worker[w].pc = "attempt1"
          /\ (worker[w].pc # "attempt2" /\ worker'[w].pc = "attempt2") =>
                worker[w].pc = "sleeping"
          /\ (worker[w].pc = "attempt2" /\ worker'[w] # worker[w]) =>
                worker'[w].pc \in {"idle", "stopped"}]_vars

\* C18 witness: a worker is in its second attempt.
C18_Witness == \E w \in Workers : worker[w].pc = "attempt2"

\* The row _save_check_result inserts for the probe a worker holds.
ResultRow(w, success) ==
    [endpoint_id |-> worker[w].endpoint_id, success |-> success,
     probe |-> worker[w].probe]

\* The table check_results after one more row.
WithRow(row) == Last(Append(check_results, row), MaxResults)

\* C19 as stated: every dequeued entry whose endpoint is in the registry
\* results in exactly one persisted row, which carries the outcome of the
\* last attempt performed, and a success sets consecutive_failures to 0:
\* whenever a worker ceases to hold a probe, exactly that row has been added.
C19_ExactlyOneRow ==
    [][\A w \in Workers :
          (Holding(w) /\ ~Holding(w)') =>
              \E success \in BOOLEAN :
                  /\ check_results' = WithRow(ResultRow(w, success))
                  /\ \/ worker_attempt1(w, IF success THEN "success"
                                           ELSE "permanent", "none")
                     \/ \E outcome \in Outcomes :
                           /\ success = (outcome = "success")
                           /\ worker_attempt2(w, outcome, "none")]_vars

\* C19 amended: a dequeued entry whose probe runs to its end results in at
\* most one persisted row, the failed first attempt of a retried probe is
\* never recorded, and when the endpoint's row still exists and the store
\* raises no error exactly one row is persisted, carrying the outcome of the
\* last attempt performed, a success setting consecutive_failures to 0.
C19_OneRowWhenStoreAnswers ==
    [][\A w \in Workers :
          /\ (worker[w].pc = "attempt1" /\ worker'[w].pc = "sleeping") =>
                check_results' = check_results
          /\ (worker[w].pc \in {"attempt1", "attempt2"} /\ worker'[w].pc = "idle") =>
                \A outcome \in {o \in Outcomes : worker[w].pc = "attempt2"
                                                     \/ o # "retryable"},
                   fault \in Faults :
                    (\/ worker_attempt1(w, outcome, fault)
                     \/ worker_attempt2(w, outcome, fault)) =>
                        LET id      == worker[w].endpoint_id
                            success == outcome = "success"
                            row     == ResultRow(w, success)
                        IN  IF fault = "none" /\ id \in DOMAIN db_endpoints
                            THEN /\ check_results' = WithRow(row)
                                 /\ success =>
                                       /\ db_endpoints'[id].consecutive_failures = 0
                                       /\ id \in DOMAIN endpoint_cache =>
                                             endpoint_cache'[id].consecutive_failures = 0
                            ELSE check_results' \in {check_results, WithRow(row)}]_vars

\* C19 witness: a worker is in the second attempt of a probe and no row of
\* that probe is in check_results: the failed first attempt was not recorded.
C19_Witness ==
    \E w \in Workers :
        /\ worker[w].pc = "attempt2"
        /\ \A i \in DOMAIN check_results :
              check_results[i] # ResultRow(w, FALSE)

\* C17: a tick of the scheduling loop that observes a queue of
\* queue_overwhelmed_size entries or more enqueues nothing and leaves the
\* registry as it is, and a tick that observes a shorter queue with the
\* system healthy, the first after a run of skipped ticks included, enqueues
\* every endpoint that is due: active with next_check_time <= now.
C17_SkipsWhileOverwhelmed ==
    [][\A db_ok \in BOOLEAN, net_ok \in BOOLEAN :
          scheduler_loop(db_ok, net_ok) =>
              IF Len(check_queue) >= queue_overwhelmed_size
              THEN /\ check_queue' = check_queue
                   /\ endpoint_cache' = endpoint_cache
              ELSE health'.is_system_healthy =>
                      \A id \in DOMAIN endpoint_cache :
                          (/\ endpoint_cache[id].is_active
                           /\ endpoint_cache[id].next_check_time <= 0)
                              => \E i \in PutPositions :
                                    check_queue'[i].endpoint_id = id]_vars

\* C17 witness: the loop has just run with the system healthy and the queue
\* at queue_overwhelmed_size, and the endpoint that is due was not enqueued.
C17_Witness ==
    /\ Len(check_queue) >= queue_overwhelmed_size
    /\ sched_sleep = scheduler_interval
    /\ health.is_system_healthy
    /\ health.consecutive_failures = 0
    /\ Monitored(1)
    /\ endpoint_cache[1].next_check_time <= 0

\* A step in which a qualifying failure event of the user is handled.
FailureEvent(user_id) ==
    \E endpoint_id \in Ids :
        \/ handle_endpoint_failure(user_id, endpoint_id, 2, 2)
        \/ handle_endpoint_failure_read_error(user_id, endpoint_id, 2, 2)

\* C20: while a user's cooldown_expires_at > now, a qualifying failure event
\* is dropped: no buffer opens and the user's persisted notification state
\* is unchanged.
C20_DroppedInCooldown ==
    [][\A user_id \in DOMAIN global_email_state :
          (/\ global_email_state[user_id].cooldown_expires_at # Null
           /\ global_email_state[user_id].cooldown_expires_at[1] > 0
           /\ FailureEvent(user_id))
              => global_email_state' = global_email_state]_vars

\* A step that is an iteration of _notification_loop.
CoordinatorTick == \E read \in FlushReads : notification_tick(read)

\* The tick flushes the user's buffer: _send_buffer_notification starts to
\* send the user's email, or resets the user without an email.
Flushes(user_id) ==
    \/ notification_loop'.pc = "sending" /\ notification_loop'.user_id = user_id
    \/ ~global_email_state'[user_id].buffer_active

\* C21: a Coordinator tick flushes a user's active buffer if and only if
\* now - buffer_started_at >= 15 minutes: a younger buffer is left alone and
\* a buffer aged exactly 15 minutes or more is flushed by that tick.
C21_FlushedFromFifteenMinutes ==
    [][CoordinatorTick =>
          \A user_id \in DOMAIN global_email_state :
              global_email_state[user_id].buffer_active =>
                  (0 - global_email_state[user_id].buffer_started_at[1] >= buffer_minutes
                      <=> Flushes(user_id))]_vars

\* A step in which _send_outage_email returned True for the buffer the loop
\* is flushing.
EmailSent == \E fault \in RecordFaults : notification_sent(TRUE, fault)

\* The row of the user after a flush at stored level L whose email was sent.
CooldownRow(L) ==
    [buffer_active |-> FALSE, buffer_started_at |-> Null,
     failing_endpoint_ids |-> <<>>,
     cooldown_level |-> cooldown_map[L].level,
     cooldown_expires_at |-> At(cooldown_map[L].hours * minutes_per_hour)]

\* C22: a flush whose email was sent successfully at stored level L clears
\* the buffer and stores cooldown_level = next(L) and cooldown_expires_at =
\* now + duration(L), with 0->(1,1), 1->(2,2), 2->(3,3), 3->(4,5), 4->(1,1);
\* every cooldown started lasts 1, 2, 3 or 5 hours and cooldown_level stays
\* within 0..4.
C22_SentFlushStartsCooldown ==
    [][/\ \A user_id \in DOMAIN global_email_state' :
             global_email_state'[user_id].cooldown_level \in 0..4
       /\ \A i \in DOMAIN sent_emails'.cooldowns :
             sent_emails'.cooldowns[i] \in {1, 2, 3, 5}
       /\ EmailSent =>
             LET user_id == notification_loop.user_id
             IN  user_id \in DOMAIN global_email_state =>
                    /\ global_email_state[user_id].cooldown_level \in 0..4
                    /\ global_email_state'[user_id] =
                          CooldownRow(global_email_state[user_id].cooldown_level)]_vars

\* A step in which _send_outage_email returned False for the buffer the loop
\* is flushing.
EmailFailed == \E fault \in RecordFaults : notification_sent(FALSE, fault)

C24_InactiveBufferIsEmpty ==
    \A user_id \in DOMAIN global_email_state :
        ~global_email_state[user_id].buffer_active
            => global_email_state[user_id].failing_endpoint_ids = <<>>

\* An email was sent for a buffer and the cooldown it started is running:
\* the buffer is inactive again.
C24_Witness ==
    /\ sent_emails.last = "sent"
    /\ 1 \in DOMAIN global_email_state
    /\ ~global_email_state[1].buffer_active
    /\ is_in_cooldown(global_email_state[1])

\* C25: a failure event changes Notification Coordinator state only if
\* consecutive_failures >= the user's failure_threshold and the user has
\* email notifications enabled; for any other event no per-user
\* notification state is created or modified.
C25_OnlyQualifyingEventsChangeState ==
    [][(/\ global_email_state' # global_email_state
        /\ UNCHANGED <<notification_loop, sent_emails>>)
          => \A endpoint_id \in Ids, success \in BOOLEAN,
                endpoint_data \in EndpointReads, user_settings \in SettingsReads :
                handle_endpoint_check(endpoint_id, success, endpoint_data, user_settings)
                   => /\ ~success
                      /\ endpoint_data # Null /\ user_settings # Null
                      /\ user_settings[1].email_notifications_enabled
                      /\ endpoint_data[1].consecutive_failures
                            >= user_settings[1].failure_threshold]_vars

\* The bridge has handled a failure it did not hand over (below the
\* threshold, notifications disabled or a read without result), and no
\* notification state exists.
C25_Witness ==
    /\ global_email_state = <<>>
    /\ \E c \in trigger_calls : ~c.success /\ ~c.handed_over

\* The number of entries of the endpoint a scan step has put on the queue.
PutCount(id) ==
    Cardinality({i \in PutPositions : check_queue'[i].endpoint_id = id})

\* The steps of the round trip that do not depend on is_active: OnCreate
\* makes the entry due new_endpoint_delay after creation whatever its
\* frequency; OnDelete removes the entry, a deleted id never comes back, and
\* a scan puts nothing for an id that is not in the registry.
RoundTripFrame(id) ==
    /\ (\E freq \in Freqs, active \in BOOLEAN : create_endpoint(id, freq, active))
          => /\ id \notin DOMAIN endpoint_cache
             /\ enqueued[id] = 0
             /\ endpoint_cache'[id].next_check_time = new_endpoint_delay
    /\ delete_endpoint(id) => id \notin DOMAIN endpoint_cache'
    /\ (/\ id \in used_ids
        /\ id \notin DOMAIN db_endpoints
        /\ id \notin DOMAIN endpoint_cache)
          => id \notin DOMAIN endpoint_cache'
    /\ (ScanStep /\ id \notin DOMAIN endpoint_cache) => PutCount(id) = 0

\* C26: OnCreate(e) at t, a scan at t + 15 s, then OnDelete(e.id) yields
\* exactly one queue entry for e.id, the new endpoint being due 10 s after
\* creation whatever its frequency, and no scan after the delete produces
\* another entry for e.id.
C26_RoundTripOneEntry ==
    [][\A id \in Ids :
          /\ RoundTripFrame(id)
          /\ (/\ ScanStep
              /\ id \in DOMAIN endpoint_cache
              /\ endpoint_cache[id].next_check_time <= 0)
                => PutCount(id) = 1]_vars

\* C26 for an endpoint created with is_active true: the scan that follows
\* the creation by 10 s or more puts exactly one entry.
C26_RoundTripOneEntryWhenActive ==
    [][\A id \in Ids :
          /\ RoundTripFrame(id)
          /\ (/\ ScanStep
              /\ id \in DOMAIN endpoint_cache
              /\ endpoint_cache[id].is_active
              /\ endpoint_cache[id].next_check_time <= 0)
                => PutCount(id) = 1]_vars

\* The round trip is over: endpoint 1 was created, enqueued once and
\* deleted, and its one entry is the only one in the queue.
C26_Witness ==
    /\ 1 \in used_ids
    /\ 1 \notin DOMAIN db_endpoints
    /\ 1 \notin DOMAIN endpoint_cache
    /\ enqueued[1] = 1
    /\ Len(check_queue) = 1
    /\ check_queue[1].endpoint_id = 1

\* C27: if Initialize fails, the error propagates to the caller of startup
\* (the lifespan fails), is_initialized stays false, is_running stays false,
\* and no worker or scheduling-loop task is ever started: nothing runs
\* after the failure.
C27_FailedStartupStartsNothing ==
    [][/\ app # "failed"
       /\ app' = "failed"
             => /\ app = "startup"
                /\ ~is_initialized' /\ ~is_running'
                /\ worker' = [w \in Workers |-> IdleWorker]
                /\ check_queue' = <<>>
                /\ endpoint_cache' = <<>>
                /\ check_results' = <<>>]_vars

\* Startup has failed.
C27_Witness == app = "failed" /\ ~is_initialized /\ ~is_running

\* C28: Shutdown stops the scheduling loop and cancels the workers; once it
\* has completed no further enqueue, probe or persistence write occurs (no
\* step is taken), and no queue entry remains pending.
C28_NothingPendingAfterShutdown ==
    [][/\ app # "stopped"
       /\ app' = "stopped"
             => /\ ~is_running'
                /\ \A w \in Workers : worker'[w].pc = "stopped"
                /\ check_queue' = <<>>]_vars

\* C29: after process startup the Notification Coordinator loop is running
\* alongside the worker pool and the scheduling loop, so that every active
\* buffer whose 15-minute window has elapsed is flushed by one of its ticks:
\* while the application serves, the loop runs.
C29_CoordinatorRunsWhileServing ==
    app = "serving" => notification_loop.is_running

\* C30: SnapshotDue(now) returns exactly the registry entries with is_active
\* true and next_check_time <= now, each once and paired with its previous
\* next_check_time as the scheduled instant; it sets next_check_time = now +
\* frequency for every returned entry and leaves every other entry
\* (inactive or not yet due) and the set of entries unchanged.
C30_SnapshotDueExact ==
    [][snapshot_due =>
          LET put == {check_queue'[i] : i \in PutPositions}
              returned == {e.endpoint_id : e \in put}
          IN  /\ returned = {id \in DOMAIN endpoint_cache :
                                /\ endpoint_cache[id].is_active
                                /\ endpoint_cache[id].next_check_time <= 0}
              /\ Cardinality(PutPositions) = Cardinality(returned)
              /\ \A e \in put :
                    e.scheduled_time = endpoint_cache[e.endpoint_id].next_check_time
              /\ DOMAIN endpoint_cache' = DOMAIN endpoint_cache
              /\ \A id \in DOMAIN endpoint_cache :
                    IF id \in returned
                    THEN /\ endpoint_cache'[id] =
                               [endpoint_cache[id] EXCEPT !.next_check_time =
                                   endpoint_cache[id].frequency_minutes
                                      * units_per_minute]
                         /\ endpoint_cache'[id].next_check_time
                               > endpoint_cache[id].next_check_time
                    ELSE endpoint_cache'[id] = endpoint_cache[id]]_vars

\* A scan has returned endpoint 1, one unit late, and passed by endpoint 2,
\* which is due but inactive.
C30_Witness ==
    /\ Len(check_queue) = 1
    /\ check_queue[1] = [endpoint_id |-> 1, scheduled_time |-> -1]
    /\ DOMAIN endpoint_cache = {1, 2}
    /\ endpoint_cache[1].next_check_time =
          endpoint_cache[1].frequency_minutes * units_per_minute
    /\ ~endpoint_cache[2].is_active
    /\ endpoint_cache[2].next_check_time = -1

\* The registry entry is active and its next_check_time has come.
Due(cache, id) ==
    /\ id \in DOMAIN cache
    /\ cache[id].is_active
    /\ cache[id].next_check_time <= 0

\* C31: a tick of the scheduling loop that finds the system unhealthy
\* enqueues nothing and leaves every registry entry as it is; an entry that
\* is due stays due until a scan enqueues it, so an entry that became due
\* during the outage is due at the first tick after recovery, and that tick
\* enqueues it unless the queue is overwhelmed.
C31_UnhealthyTickIsNoOp ==
    [][/\ \A db_ok \in BOOLEAN, net_ok \in BOOLEAN :
             scheduler_loop(db_ok, net_ok) =>
                 IF ~health'.is_system_healthy
                 THEN /\ check_queue' = check_queue
                      /\ endpoint_cache' = endpoint_cache
                      /\ enqueued' = enqueued
                 ELSE \A id \in Ids :
                         (/\ Due(endpoint_cache, id)
                          /\ ~is_queue_overwhelmed(Len(check_queue)))
                            => \E i \in PutPositions :
                                  check_queue'[i].endpoint_id = id
       /\ \A id \in Ids :
             Due(endpoint_cache, id)
                => \/ Due(endpoint_cache', id)
                   \/ /\ Len(check_queue') > Len(check_queue)
                      /\ \E i \in PutPositions :
                            check_queue'[i].endpoint_id = id]_vars

\* The loop has just run with the queue empty and left the due endpoint
\* where it is: it found the system unhealthy.
C31_Witness ==
    /\ ~health.is_system_healthy
    /\ sched_sleep = scheduler_interval
    /\ check_queue = <<>>
    /\ Monitored(1)
    /\ endpoint_cache[1].next_check_time <= 0

\* C32: a check_system_health call made less than check_interval after the
\* previous check runs no subcheck: it changes neither counter, nor the
\* health flag, nor the instant of the last check, and answers with the
\* cached flag, so the loop scans only if the flag was already healthy. The
\* forced variant runs the subchecks whatever the interval: it sets the
\* instant of the last check to now and counts the result.
C32_RateLimitedCheckIsCached ==
    [][\A db_ok \in BOOLEAN, net_ok \in BOOLEAN :
          /\ (/\ scheduler_loop(db_ok, net_ok)
              /\ 0 - health.last_health_check < check_interval)
                => /\ health' = health
                   /\ check_queue' # check_queue => health.is_system_healthy
          /\ ForceHealthCheck(db_ok, net_ok)
                => /\ health'.last_health_check = 0
                   /\ IF db_ok /\ net_ok
                      THEN /\ health'.consecutive_failures = 0
                           /\ health'.consecutive_successes \in
                                 {0, Min(health.consecutive_successes + 1,
                                         MaxHealthCount)}
                           /\ health'.consecutive_successes = 0
                                 => /\ ~health.is_system_healthy
                                    /\ health'.is_system_healthy
                      ELSE /\ health'.consecutive_successes = 0
                           /\ health'.consecutive_failures =
                                 Min(health.consecutive_failures + 1,
                                     MaxHealthCount)]_vars

\* C32 witness: the loop has just run an iteration ten seconds after the
\* last health check, inside the interval, with one failure counted.
C32_Witness ==
    /\ is_running
    /\ sched_sleep = scheduler_interval
    /\ health.last_health_check = 0 - 1
    /\ health.consecutive_failures = 1

\* The ids of a buffer after one more failing endpoint: a set, an id already
\* in it is not added again.
WithId(ids, endpoint_id) ==
    IF \E i \in DOMAIN ids : ids[i] = endpoint_id
    THEN ids ELSE Append(ids, endpoint_id)

\* C33: a qualifying failure for a Ready user (no active buffer, no running
\* cooldown) sets buffer_active, buffer_started_at = now and the failing ids
\* to the endpoint alone; a qualifying failure for a Buffering user adds the
\* endpoint id to the ids without duplicates and leaves buffer_started_at
\* unchanged, so that re-adding an id changes nothing.
C33_QualifyingFailureBuffers ==
    [][\A user_id \in Users, endpoint_id \in Ids :
          (\/ handle_endpoint_failure(user_id, endpoint_id, 2, 2)
           \/ handle_endpoint_failure_read_error(user_id, endpoint_id, 2, 2))
             => LET table == get_or_create_email_state(global_email_state, user_id)
                    row   == table[user_id]
                    after == get_or_create_email_state(global_email_state', user_id)[user_id]
                IN  /\ (~row.buffer_active /\ ~is_in_cooldown(row))
                         => /\ after.buffer_active
                            /\ after.buffer_started_at = At(0)
                            /\ after.failing_endpoint_ids = <<endpoint_id>>
                    /\ (row.buffer_active /\ ~is_in_cooldown(row))
                         => /\ after.buffer_active
                            /\ after.buffer_started_at = row.buffer_started_at
                            /\ after.failing_endpoint_ids =
                                  WithId(row.failing_endpoint_ids, endpoint_id)]_vars

\* C34: a worker that takes from the queue an endpoint id that is not in the
\* registry runs no probe for it, persists nothing and changes neither the
\* registry nor the notification state; it only removes the entry and is
\* free to take the next one.
C34_UnknownIdIsDropped ==
    [][\A w \in Workers :
          (/\ worker_get(w)
           /\ Head(check_queue).endpoint_id \notin DOMAIN endpoint_cache)
             => /\ check_queue' = Tail(check_queue)
                /\ worker' = worker
                /\ worker'[w].pc = "idle"
                /\ is_running'
                /\ endpoint_cache' = endpoint_cache
                /\ db_endpoints' = db_endpoints
                /\ check_results' = check_results
                /\ trigger_calls' = trigger_calls
                /\ global_email_state' = global_email_state
                /\ sent_emails' = sent_emails]_vars

\* C34 witness: endpoint 1 was enqueued and then deleted; its entry has left
\* the queue, no worker holds it and no result was stored.
C34_Witness ==
    /\ is_running
    /\ enqueued[1] = 1
    /\ 1 \notin DOMAIN endpoint_cache
    /\ check_queue = <<>>
    /\ \A w \in Workers : worker[w].pc = "idle"
    /\ check_results = <<>>

\* A step in which worker w saves the result of a probe and the insert into
\* check_results violates the foreign key: the endpoint's row is gone.
ForeignKeyViolation(w) ==
    /\ worker[w].endpoint_id \notin DOMAIN db_endpoints
    /\ \E outcome \in Outcomes, fault \in Faults \ {"insert"} :
          \/ worker_attempt1(w, outcome, fault) /\ outcome # "retryable"
          \/ worker_attempt2(w, outcome, fault)

\* C35: when the insert of a result fails with a foreign-key violation, the
\* worker removes the registry entry of that id if there is one, stores no
\* row and no failure counter and keeps running; a deleted id that is out of
\* the registry stays out of it and no later scan enqueues it.
C35_ForeignKeyEvicts ==
    [][/\ \A w \in Workers :
             ForeignKeyViolation(w)
                => /\ worker[w].endpoint_id \notin DOMAIN endpoint_cache'
                   /\ \A id \in DOMAIN endpoint_cache \ {worker[w].endpoint_id} :
                         /\ id \in DOMAIN endpoint_cache'
                         /\ endpoint_cache'[id] = endpoint_cache[id]
                   /\ db_endpoints' = db_endpoints
                   /\ check_results' = check_results
                   /\ is_running'
                   /\ worker'[w] = IdleWorker
       /\ \A id \in used_ids :
             (id \notin DOMAIN db_endpoints /\ id \notin DOMAIN endpoint_cache)
                => /\ id \notin DOMAIN endpoint_cache'
                   /\ \A i \in PutPositions : check_queue'[i].endpoint_id # id]_vars

\* C35 witness: the endpoint's row went with its workspace while the entry
\* was in the registry and had been enqueued; the entry is gone now, nothing
\* was stored and the workers are idle and running.
C35_Witness ==
    /\ is_running
    /\ 1 \in used_ids
    /\ 1 \notin DOMAIN db_endpoints
    /\ 1 \notin DOMAIN endpoint_cache
    /\ enqueued[1] >= 1
    /\ check_results = <<>>
    /\ \A w \in Workers : worker[w].pc = "idle"

\* The step flushes the user's buffer: the tick selects it as expired, or the
\* email of the buffer has been sent and the iteration goes on.
FlushOf(user_id) ==
    \/ /\ CoordinatorTick
       /\ user_id \in ExpiredBuffers(global_email_state)
    \/ /\ notification_loop.pc = "sending"
       /\ notification_loop.user_id = user_id
       /\ \E success \in BOOLEAN, fault \in RecordFaults :
             notification_sent(success, fault)

\* C36: an active buffer is never cleared by the scan of the expired
\* cooldowns: once a qualifying failure has opened a buffer, also one that
\* arrives after cooldown_expires_at has passed and before a tick has reset
\* the user, the buffer stays active with its endpoint ids under every step
\* that is not its flush.
C36_BufferKeptUntilFlushed ==
    [][\A user_id \in DOMAIN global_email_state :
          LET row   == global_email_state[user_id]
              after == global_email_state'[user_id]
          IN  (row.buffer_active /\ ~FlushOf(user_id))
                 => /\ after.buffer_active
                    /\ \A i \in DOMAIN row.failing_endpoint_ids :
                          \E j \in DOMAIN after.failing_endpoint_ids :
                             after.failing_endpoint_ids[j] =
                                row.failing_endpoint_ids[i]]_vars

\* C37: for each opened buffer at most one outage email is sent, also when
\* the history insert or the cooldown update fails after the send: a buffer
\* whose email goes out was opened after the user's previous email went out.
C37_OneEmailPerBuffer ==
    [][(EmailSent /\ sent_emails.last = "sent")
          => notification_loop.buffer_state.buffer_started_at[1] >
                0 - sent_emails.since]_vars

\* The ids of a sequence of endpoint ids.
IdsOf(ids) == {ids[i] : i \in DOMAIN ids}

\* C38: no accepted failure is lost by a concurrent flush: when the email of
\* a buffer has been sent, every endpoint id in the user's buffer, also one
\* added while the flush was waiting for the send, is listed in that email
\* or is still in the user's buffer after the flush.
C38_NoFailureLostByFlush ==
    [][EmailSent =>
          LET user_id == notification_loop.user_id
          IN  user_id \in DOMAIN global_email_state =>
                 \A id \in IdsOf(global_email_state[user_id].failing_endpoint_ids) :
                    \/ id \in IdsOf(notification_loop.buffer_state.failing_endpoint_ids)
                    \/ id \in IdsOf(global_email_state'[user_id].failing_endpoint_ids)]_vars

\* C39: in every state of the health monitor, healthy implies
\* consecutive_failures < failure_threshold and unhealthy implies
\* consecutive_successes < success_threshold, whatever successful, failed,
\* rate-limited and forced checks have run.
C39_CountersBelowThresholds ==
    IF health.is_system_healthy
    THEN health.consecutive_failures < failure_threshold
    ELSE health.consecutive_successes < success_threshold

\* C39 witness: the monitor is unhealthy and one successful check short of
\* recovery, right after a check.
C39_Witness ==
    /\ ~health.is_system_healthy
    /\ health.consecutive_successes = success_threshold - 1
    /\ health.last_health_check = 0

\* C40: under any sequence of initialize, start and stop calls the live
\* worker tasks never exceed worker_count and at most one scheduling-loop
\* task is live; a start() before a successful initialize() raises and
\* spawns nothing, and a start() while running spawns no further task.
C40_TasksBounded ==
    [][/\ tasks'.workers <= worker_count
       /\ tasks'.loops <= 1
       /\ scheduler_start =>
             /\ ~is_initialized =>
                   /\ tasks'.last_start = "raised"
                   /\ ~is_running'
                   /\ tasks'.workers = tasks.workers /\ tasks.workers = 0
                   /\ tasks'.loops = tasks.loops /\ tasks.loops = 0
             /\ is_running =>
                   /\ tasks'.workers = tasks.workers
                   /\ tasks'.loops = tasks.loops]_vars

\* C40 witness: start() was called while the scheduler was running; the
\* worker_count workers and the one loop of the first start() are live.
C40_Witness ==
    /\ tasks.last_start = "ignored"
    /\ is_running
    /\ tasks.workers = worker_count
    /\ tasks.loops = 1

====
